---- MODULE Spec2Model ----
(***************************************************************************)
(* Conversation and reply-dispatch core of byzerllm.apps.agent:            *)
(* ConversableAgent (conversable_agent.py) with its per-counterpart        *)
(* message store, reply-function chain and the synchronous send/receive    *)
(* recursion.                                                              *)
(***************************************************************************)
EXTENDS Integers, Sequences, FiniteSets, TLC

\* ------------------------------------------------------------------ bounds
\* Longest reply-function list an agent is given (built-in entry included):
\* while agents converse, and when generate_reply is called on its own.
MaxChatChain == 2
MaxChain == 3
\* Number of top-level calls of send / receive / initiate_chat by the driver.
MaxCalls == 2
\* Nested receive calls one conversation may stack before the interpreter
\* gives up with RecursionError (the scaled-down recursion limit).
MaxDepth == 4

\* ------------------------------------------------------------------ values
Agents == {"A", "B", "C"}
\* sender=None of generate_reply
NoSender == "<no sender>"
\* a key that is not in a dict
ABSENT == "<absent>"
\* the Python value None stored under a key
NONE == "<None>"

\* A message as a caller passes it: a str, or a dict with the recognised keys.
StrMsg(s) == [kind |-> "str", content |-> s, function_call |-> ABSENT, role |-> ABSENT]
DictMsg(c, f, r) == [kind |-> "dict", content |-> c, function_call |-> f, role |-> r]
\* None where a reply is expected
NoneMsg == [kind |-> "none", content |-> ABSENT, function_call |-> ABSENT, role |-> ABSENT]

\* Messages the driver passes to send / receive / initiate_chat.
InputMessages ==
    { StrMsg("hi"),
      DictMsg(ABSENT, ABSENT, "user"),
      DictMsg(ABSENT, "f", ABSENT) }

\* request_reply: True, False or None (unset)
RequestReply == {"True", "False", "None"}

\* ------------------------------------------------------------- defaultdict
EmptyDict == [k \in {} |-> 0]
DictGet(d, k, dflt) == IF k \in DOMAIN d THEN d[k] ELSE dflt
DictPut(d, k, v) == [x \in (DOMAIN d) \cup {k} |-> IF x = k THEN v ELSE d[x]]
\* d[k] on a defaultdict: a missing key is created with the default
DictTouch(d, k, dflt) == IF k \in DOMAIN d THEN d ELSE DictPut(d, k, dflt)

\* min(x, y) of Python
Min(x, y) == IF x <= y THEN x ELSE y

\* ---------------------------------------------------------- message store
\* _message_to_dict: a str becomes {"content": str}; a dict is kept.
MessageToDict(m) ==
    IF m.kind = "str"
    THEN [content |-> m.content, function_call |-> ABSENT, role |-> ABSENT]
    ELSE [content |-> m.content, function_call |-> m.function_call, role |-> m.role]

\* Faulty variant of AppendValid: the early "return False" is missing.
AppendValidAlways(m) == TRUE

\* _append_message, the return value: False when the dict has neither key.
AppendValid(m) ==
    LET d == MessageToDict(m)
    IN  d.content # ABSENT \/ d.function_call # ABSENT

\* Faulty variant of OaiMessage: the message's own role "function" is not looked at.
OaiMessageRoleArgument(m, role) ==
    LET d == MessageToDict(m)
    IN  [content |-> IF d.content # ABSENT THEN d.content
                     ELSE IF d.function_call # ABSENT THEN NONE ELSE ABSENT,
         function_call |-> d.function_call,
         role |-> IF d.function_call # ABSENT THEN "assistant" ELSE role]

\* _append_message, the oai_message it builds.
OaiMessage(m, role) ==
    LET d == MessageToDict(m)
        content == IF d.content # ABSENT THEN d.content
                   ELSE IF d.function_call # ABSENT THEN NONE ELSE ABSENT
        r0 == IF d.role = "function" THEN "function" ELSE role
    IN  [content |-> content,
         function_call |-> d.function_call,
         role |-> IF d.function_call # ABSENT THEN "assistant" ELSE r0]

\* Faulty variant of AppendMessage: the message is inserted at the front of the list.
AppendMessageAtFront(msgs, m, role, key) ==
    IF AppendValid(m)
    THEN DictPut(msgs, key, <<OaiMessage(m, role)>> \o DictGet(msgs, key, <<>>))
    ELSE msgs

\* _append_message, the effect on self._messages (a defaultdict(list)).
AppendMessage(msgs, m, role, key) ==
    IF AppendValid(m)
    THEN DictPut(msgs, key, Append(DictGet(msgs, key, <<>>), OaiMessage(m, role)))
    ELSE msgs

\* ------------------------------------------------------------ reply chain
\* Reply functions the model registers: the built-in generate_llm_reply and
\* four callables of the caller (one of them a coroutine function).
ReplyFuncs == {"generate_llm_reply", "reply_ok", "final_none", "decline", "async_reply"}

\* asyncio.coroutines.iscoroutinefunction(reply_func)
IsCoroutineFunction(f) == f = "async_reply"

\* A trigger is a list of atomic triggers (a single trigger is a list of one).
ClassTrigger(c) == [kind |-> "class", arg |-> c]
NameTrigger(n) == [kind |-> "name", arg |-> n]
InstanceTrigger(a) == [kind |-> "instance", arg |-> a]
NoneTrigger == [kind |-> "none", arg |-> NONE]
Triggers ==
    { {ClassTrigger("Agent"), NoneTrigger},
      {NameTrigger("B")},
      {InstanceTrigger("C")},
      {NoneTrigger} }

\* The documented meaning of a trigger (register_reply's docstring): a class
\* matches a sender that is an instance of it, a string the sender's name, an
\* agent that very sender, None only sender=None, a list any of its elements.
TriggerMatches(trigger, sender) ==
    \E t \in trigger :
        \/ t.kind = "class" /\ t.arg = "Agent" /\ sender \in Agents
        \/ t.kind = "name" /\ sender = t.arg
        \/ t.kind = "instance" /\ sender = t.arg
        \/ t.kind = "none" /\ sender = NoSender

\* config of an entry: None, or a dict whose content is one of these
Configs == {NONE, "c1"}
\* reset_config of an entry: None, or a callable that empties the dict in place
ResetConfigs == {NONE, "clear"}

\* What a callable can do to the config object it is handed: a dict is
\* changed in place, None cannot be changed.
MutateConfig(config, v) == IF config = NONE THEN NONE ELSE v

\* reset_config(config) of the entry
ApplyResetConfig(rc, config) == IF rc = "clear" THEN MutateConfig(config, "cleared") ELSE config

\* Faulty variant of ListInsert: the entry is appended.
ListInsertAtEnd(s, position, x) == Append(s, x)

\* list.insert(position, x) of Python, for position >= 0
ListInsert(s, position, x) ==
    LET i == IF position > Len(s) THEN Len(s) ELSE position
    IN  SubSeq(s, 1, i) \o <<x>> \o SubSeq(s, i + 1, Len(s))

\* register_reply: the entry it builds (config is a shallow copy of init_config)
ReplyFuncTuple(trigger, f, config, rc) ==
    [trigger |-> trigger, reply_func |-> f, config |-> config,
     init_config |-> config, reset_config |-> rc]

VARIABLES
    llm,                    \* a |-> whether a model backend is attached
    default_auto_reply,     \* a |-> _default_auto_reply
    max_consecutive_auto_reply,  \* a |-> _max_consecutive_auto_reply
    messages,               \* a |-> _messages: counterpart |-> list of oai messages
    max_consecutive_auto_reply_dict,  \* a |-> _max_consecutive_auto_reply_dict
    counter,                \* a |-> _consecutive_auto_reply_counter
    reply_at_receive,       \* a |-> reply_at_receive: counterpart |-> bool
    reply_func_list,        \* a |-> _reply_func_list
    pending,                \* the receive call in flight, or NoCall
    depth,                  \* receive calls on the call stack
    outcome,                \* how the last top-level call ended
    calls,                  \* top-level conversation calls made so far
    last,                   \* the operation the last step performed
    call,                   \* the driver's call that the state results from
    dispatch,               \* the generate_reply the last step ran, or NoDispatch
    auto_sent,              \* a |-> c |-> automatic replies a sent to c since the counter reset
    appended,               \* a |-> c |-> appends that returned True since c's history was cleared
    exchanged,              \* a |-> the counterparts a has stored a sent or received message for
    result,                 \* what the last last_message / chat_messages lookup gave back
    sb_messages,            \* _messages of the PythonSandboxAgent: key |-> list of oai messages
    sandboxes,              \* its pool: name |-> sandbox
    lasted_updated,         \* name |-> time of the last get_or_create_sandbox
    lu_keys,                \* the names of lasted_updated in the order they were inserted
    now,                    \* time.time(), in half hours
    created,                \* sandboxes created so far
    sb,                     \* the last call on the PythonSandboxAgent and how it ended
    sb_log,                 \* name |-> the messages stored for handles of that participant
    code_execution_config,  \* _code_execution_config of the PythonSandboxAgent, a dict
    threads,                \* thread |-> where it is inside get_or_create_sandbox
    ra_messages,            \* _messages of the RetrievalAgent: key |-> list of oai messages
    update_context_retry,   \* its update_context_retry
    chunks,                 \* chunks the store holds for a question
    ra,                     \* the last call on the RetrievalAgent and how it ended
    reachable               \* the model backend answers the calls made to it

vars == <<llm, default_auto_reply, max_consecutive_auto_reply,
          max_consecutive_auto_reply_dict, messages, counter,
          reply_at_receive, reply_func_list, pending, depth, outcome, calls, last,
          call, dispatch, auto_sent, appended, exchanged, result,
          sb_messages, sandboxes, lasted_updated, lu_keys, now, created, sb, sb_log,
          code_execution_config, threads,
          ra_messages, update_context_retry, chunks, ra, reachable>>

\* The PythonSandboxAgent
sandbox_vars == <<sb_messages, sandboxes, lasted_updated, lu_keys, now, created, sb, sb_log,
                  code_execution_config, threads>>
\* The RetrievalAgent
retrieval_vars == <<ra_messages, update_context_retry, chunks, ra>>
\* State that the conversation operations neither read nor write.
ext_vars == <<result, sandbox_vars, retrieval_vars>>
\* The conversing agents
conv_vars == <<llm, reachable, default_auto_reply, max_consecutive_auto_reply,
               max_consecutive_auto_reply_dict, messages, counter,
               reply_at_receive, reply_func_list, pending, depth, outcome, calls, last,
               call, dispatch, auto_sent, appended, exchanged>>

config_vars == <<llm, reachable, default_auto_reply, max_consecutive_auto_reply,
                 max_consecutive_auto_reply_dict>>

\* Replies the model backend gives (response[0].output, a str).
LlmOutputs == {StrMsg("ok"), StrMsg("TERMINATE")}
\* default_auto_reply an agent is constructed with ("" is the default).
DefaultAutoReplies == {StrMsg(""), NoneMsg}
\* max_consecutive_auto_reply an agent is constructed with.
AutoReplyLimits == {1}
\* exclude of generate_reply (empty: None)
Excludes == {{}, {"decline"}, {"reply_ok", "generate_llm_reply"}}

NoCall == [to |-> ABSENT, from |-> ABSENT, msg |-> NoneMsg, request_reply |-> ABSENT]
NoDispatch == [agent |-> ABSENT, sender |-> ABSENT, exclude |-> {}, chain |-> <<>>,
               invoked |-> <<>>, reply |-> NoneMsg, raised |-> FALSE, reachable |-> TRUE]
NoOp == [op |-> "none", agent |-> ABSENT, peer |-> ABSENT, msg |-> NoneMsg, request_reply |-> ABSENT,
         position |-> -1, reply_func |-> ABSENT]
Op(op, a, peer, m, rr) ==
    [op |-> op, agent |-> a, peer |-> peer, msg |-> m, request_reply |-> rr,
     position |-> -1, reply_func |-> ABSENT]
\* no lookup has been made
NoResult == [how |-> "none", value |-> <<>>]

\* ------------------------------------------------ PythonSandboxAgent values
\* Handles through which counterparts reach the agent, and the participant
\* each denotes: two handle objects for X, one for Y.
Handles == {"h1", "h2"}
Names == {"X", "Y"}
\* get_agent_name(agent): the name the handle's participant reports
GetAgentName(h) == "X"

\* Code a message can carry in a python fenced block: code that prints 2,
\* code that raises an Exception, code that raises SystemExit.
Codes == {"print(1+1)", "raise ValueError", "exit()"}
\* Contents of the messages the agent is sent: plain text, or a python
\* fenced block around one of the codes.
PlainText == "hello"
Fenced(code) ==
    CASE code = "print(1+1)" -> "~~~python print(1+1) ~~~"
      [] code = "raise ValueError" -> "~~~python raise ValueError ~~~"
      [] OTHER -> "~~~python exit() ~~~"
CodeContents == {PlainText} \cup {Fenced(c) : c \in Codes}
\* Further contents: the empty text, a fenced block of another language,
\* and two python fenced blocks in one message.
EmptyContent == ""
ShellBlock == "~~~sh ls ~~~"
TwoBlocks == "~~~python print(1+1) ~~~ ~~~python raise ValueError ~~~"
LookbackContents == {PlainText, EmptyContent, ShellBlock, TwoBlocks, Fenced("print(1+1)")}

\* code_utils.extract_code(text): the (language, code) blocks of the text; a
\* text without fenced block is one block of language "unknown".
ExtractCode(text) ==
    IF \E c \in Codes : text = Fenced(c)
    THEN <<[lang |-> "python", code |-> CHOOSE c \in Codes : text = Fenced(c)]>>
    ELSE IF text = ShellBlock
    THEN <<[lang |-> "sh", code |-> "ls"]>>
    ELSE IF text = TwoBlocks
    THEN <<[lang |-> "python", code |-> "print(1+1)"],
           [lang |-> "python", code |-> "raise ValueError"]>>
    ELSE <<[lang |-> "unknown", code |-> text]>>

\* "\n".join(codes), the lines written here with "; " between them
JoinCodes(codes) ==
    IF Len(codes) = 0 THEN ""
    ELSE IF Len(codes) = 1 THEN codes[1]
    ELSE "print(1+1); raise ValueError"

\* What running the code does inside exec(code, variables).
Raises(code) ==
    CASE code \in {"raise ValueError", "print(1+1); raise ValueError"} -> "Exception"
      [] code = "exit()" -> "SystemExit"
      [] OTHER -> "nothing"
Printed(code) == IF code = "print(1+1)" THEN "2" ELSE ""

\* CodeSandbox.exec_capture_output(code, target_names): exec under
\* "except Exception", then target_names.items(), which a dict has and a
\* list has not (AttributeError, raised inside the same try).
ExecCaptureOutput(code, target_names) ==
    IF Raises(code) = "SystemExit"
    THEN [kind |-> "raised", exception |-> "SystemExit", exitcode |-> -1, output |-> ABSENT]
    ELSE IF Raises(code) = "Exception" \/ target_names = "list"
    THEN [kind |-> "tuple", exception |-> ABSENT, exitcode |-> 1, output |-> "Traceback"]
    ELSE [kind |-> "tuple", exception |-> ABSENT, exitcode |-> 0, output |-> Printed(code)]

\* sys.stdout and sys.stderr of the sandbox's process: the streams the
\* interpreter started with, or the StringIO buffer of a call
OriginalStreams == [stdout |-> "sys.__stdout__", stderr |-> "sys.__stderr__"]
Captured == [stdout |-> "buffer", stderr |-> "buffer"]

\* exec_capture_output, lines 53-68: both streams are pointed at the buffer
\* before the try and set back after it, on the path that returns 0 only
StreamsAfter(code, target_names) ==
    LET r == ExecCaptureOutput(code, target_names)
    IN  IF r.kind = "tuple" /\ r.exitcode = 0 THEN OriginalStreams ELSE Captured

\* the pool after the sandbox of name has run exec_capture_output
Ran(pool, name, code, target_names) ==
    [pool EXCEPT ![name].stdout = StreamsAfter(code, target_names).stdout,
                 ![name].stderr = StreamsAfter(code, target_names).stderr]

\* method.remote(...) of an actor handle: the call is submitted and an
\* object reference comes back at once; ray.get(ref) gives the value.
Remote(value) == [kind |-> "ObjectRef", exception |-> ABSENT, exitcode |-> -1, output |-> ABSENT]
\* "a, b, c = v" works on a tuple; an object reference is not iterable.
Unpacks(v) == v.kind = "tuple"

\* The idle timeout of check_sandbox_timeout, 60*60 seconds, in half hours.
SandboxTimeout == 2
\* The clock stops here.
MaxTime == 4
\* Sandboxes the runtime creates at most.
MaxCreated == 3
\* Messages the PythonSandboxAgent is sent at most.
MaxSandboxMessages == 2
\* last_n_messages the agent is configured with at most
MaxLookback == 2
\* code_execution_config the agent is constructed with: {} or {"last_n_messages": n}
CodeExecutionConfigs ==
    {EmptyDict} \cup {DictPut(EmptyDict, "last_n_messages", n) : n \in 1..MaxLookback}

\* Threads that call the agent at the same time.
Threads == {"t1", "t2"}
\* a thread outside get_or_create_sandbox that has not called it yet
NoThreadCall == [pc |-> "idle", name |-> ABSENT, sandbox |-> 0, got |-> 0, outcome |-> "none",
                 overlapped |-> FALSE]

NoSandboxCall ==
    [op |-> "none", name |-> ABSENT, sender |-> ABSENT, outcome |-> "none",
     absent |-> FALSE, stale |-> FALSE, fresh |-> FALSE, session_variables |-> {},
     given |-> FALSE, read |-> <<>>, final |-> FALSE, status |-> -1, output |-> ABSENT,
     code |-> ABSENT, raised_in |-> ABSENT, last_n_messages |-> 1, index |-> 0]

\* -------------------------------------------------- RetrievalAgent values
\* update_context_retry when the constructor is given none
UpdateContextRetry == 3
\* limit of the search the reply handler makes
SearchLimit == 30
\* update_context_retry values and store sizes considered
MaxRetry == 3
MaxChunks == 3
\* messages the RetrievalAgent stores
MaxRetrievalMessages == 2
Questions == {"q1", "q2"}
\* model responses: one asking for more context, one answering
UpdateContext == "UPDATE CONTEXT"
Answers == {UpdateContext, "answer"}
FailToAnswer == "FAIL TO ANSWER"

NoRetrievalCall ==
    [op |-> "none", sender |-> ABSENT, given |-> FALSE, response |-> ABSENT,
     outcome |-> "none", value |-> ABSENT, llm_calls |-> 0]

\* generate_llm_reply(messages, sender, config) of agent a: inconclusive
\* without a backend; else the output of llm.chat_oai, whose failure is the
\* failure of the call.
GenerateLlmReply(a, config, out) ==
    IF ~llm[a]
    THEN [final |-> FALSE, reply |-> NoneMsg, config |-> config, raised |-> FALSE]
    ELSE IF ~reachable
    THEN [final |-> FALSE, reply |-> NoneMsg, config |-> config, raised |-> TRUE]
    ELSE [final |-> TRUE, reply |-> out, config |-> config, raised |-> FALSE]

\* (final, reply) a reply function returns for agent a, the config it leaves
\* behind, and whether it raised instead of returning. "decline" is
\* inconclusive and notes its use in its config.
ReplyFuncResult(a, f, config, out) ==
    CASE f = "generate_llm_reply" -> GenerateLlmReply(a, config, out)
      [] f = "reply_ok" ->
            [final |-> TRUE, reply |-> StrMsg("ok"), config |-> config, raised |-> FALSE]
      [] f = "final_none" ->
            [final |-> TRUE, reply |-> NoneMsg, config |-> config, raised |-> FALSE]
      [] f = "decline" ->
            [final |-> FALSE, reply |-> NoneMsg, config |-> MutateConfig(config, "used"),
             raised |-> FALSE]
      [] OTHER -> [final |-> TRUE, reply |-> StrMsg("ok"), config |-> config, raised |-> FALSE]

\* Faulty variant of IsFinal: a conclusive result does not end the loop.
IsFinalNever(r) == FALSE

\* generate_reply, line 372: the entry's result ends the loop
IsFinal(r) == r.final

\* generate_reply, the test that skips an entry without calling it
SkipEntry(entry, sender, exclude) ==
    \/ (exclude # {} /\ entry.reply_func \in exclude)
    \/ IsCoroutineFunction(entry.reply_func)

\* Faulty variant of DefaultAutoReply: None when no entry is conclusive.
DefaultAutoReplyNone(a) == NoneMsg

\* generate_reply, line 375: return self._default_auto_reply
DefaultAutoReply(a) == default_auto_reply[a]

\* generate_reply, the loop over _reply_func_list from entry i on; invoked
\* lists the indexes of the entries called so far. An entry that raises ends
\* the loop, and generate_reply, with its exception.
RECURSIVE WalkChain(_, _, _, _, _, _, _)
WalkChain(a, chain, i, sender, exclude, out, invoked) ==
    IF i > Len(chain)
    THEN [invoked |-> invoked, reply |-> DefaultAutoReply(a), chain |-> chain,
          raised |-> FALSE]
    ELSE IF SkipEntry(chain[i], sender, exclude)
    THEN WalkChain(a, chain, i + 1, sender, exclude, out, invoked)
    ELSE LET r == ReplyFuncResult(a, chain[i].reply_func, chain[i].config, out)
             c == [chain EXCEPT ![i].config = r.config]
         IN  IF r.raised
             THEN [invoked |-> Append(invoked, i), reply |-> NoneMsg, chain |-> c,
                   raised |-> TRUE]
             ELSE IF IsFinal(r)
             THEN [invoked |-> Append(invoked, i), reply |-> r.reply, chain |-> c,
                   raised |-> FALSE]
             ELSE WalkChain(a, c, i + 1, sender, exclude, out, Append(invoked, i))

GenerateReply(a, sender, exclude, out) ==
    WalkChain(a, reply_func_list[a], 1, sender, exclude, out, <<>>)

DispatchRecord(a, sender, exclude, g) ==
    [agent |-> a, sender |-> sender, exclude |-> exclude, chain |-> reply_func_list[a],
     invoked |-> g.invoked, reply |-> g.reply, raised |-> g.raised,
     reachable |-> reachable]

\* Faulty variant of NoReplyRequested: "(False or None) and not reply_at_receive",
\* the condition with the wrong grouping.
NoReplyRequestedGrouped(request_reply, rar, sender) ==
    /\ request_reply \in {"False", "None"}
    /\ DictGet(rar, sender, FALSE) = FALSE

\* receive, line 345: return without replying
NoReplyRequested(request_reply, rar, sender) ==
    \/ request_reply = "False"
    \/ (request_reply = "None" /\ DictGet(rar, sender, FALSE) = FALSE)

\* receive, line 348: the reply is sent
ReplyIsSent(reply) == reply # NoneMsg

Bump(f, a, c) == [f EXCEPT ![a] = DictPut(@, c, DictGet(@, c, 0) + 1)]

Finish(how) ==
    /\ outcome' = how
    /\ pending' = NoCall
    /\ depth' = 0

\* receive(message, sender, request_reply) run by agent a as call number d of
\* the stack, with the send of its reply (send's own append included).
Receive(a, s, m, rr, out, d) ==
    LET msgs1 == [messages EXCEPT ![a] = AppendMessage(@, m, "user", s)]
        app1 == Bump(appended, a, s)
        rar1 == IF rr = "None"
                THEN [reply_at_receive EXCEPT ![a] = DictTouch(@, s, FALSE)]
                ELSE reply_at_receive
        g == GenerateReply(a, s, {}, out)
    IN  /\ last' = Op("receive", a, s, m, rr)
        /\ UNCHANGED <<config_vars, counter, ext_vars>>
        /\ exchanged' = IF AppendValid(m) THEN [exchanged EXCEPT ![a] = @ \cup {s}]
                                          ELSE exchanged
        /\ IF ~AppendValid(m)
           THEN /\ Finish("ValueError")
                /\ dispatch' = NoDispatch
                /\ UNCHANGED <<messages, appended, reply_at_receive, reply_func_list,
                               auto_sent>>
           ELSE IF NoReplyRequested(rr, reply_at_receive[a], s)
           THEN /\ messages' = msgs1
                /\ appended' = app1
                /\ reply_at_receive' = rar1
                /\ Finish("returned")
                /\ dispatch' = NoDispatch
                /\ UNCHANGED <<reply_func_list, auto_sent>>
           ELSE /\ reply_at_receive' = rar1
                /\ reply_func_list' = [reply_func_list EXCEPT ![a] = g.chain]
                /\ dispatch' = DispatchRecord(a, s, {}, g)
                /\ IF g.raised
                   THEN /\ messages' = msgs1
                        /\ appended' = app1
                        /\ Finish("BackendError")
                        /\ UNCHANGED auto_sent
                   ELSE IF ~ReplyIsSent(g.reply)
                   THEN /\ messages' = msgs1
                        /\ appended' = app1
                        /\ Finish("returned")
                        /\ UNCHANGED auto_sent
                   ELSE IF ~AppendValid(g.reply)
                   THEN /\ messages' = msgs1
                        /\ appended' = app1
                        /\ Finish("ValueError")
                        /\ UNCHANGED auto_sent
                   ELSE /\ messages' = [msgs1 EXCEPT ![a] = AppendMessage(@, g.reply, "assistant", s)]
                        /\ appended' = Bump(app1, a, s)
                        /\ auto_sent' = Bump(auto_sent, a, s)
                        /\ IF d >= MaxDepth
                           THEN Finish("RecursionError")
                           ELSE /\ pending' = [to |-> s, from |-> a, msg |-> g.reply,
                                               request_reply |-> "None"]
                                /\ depth' = d + 1
                                /\ outcome' = "running"

\* send(message, recipient, request_reply) called by the driver on agent a.
SendFrom(a, b, m, rr, msgs, app) ==
    IF AppendValid(m)
    THEN /\ messages' = [msgs EXCEPT ![a] = AppendMessage(@, m, "assistant", b)]
         /\ appended' = Bump(app, a, b)
         /\ exchanged' = [exchanged EXCEPT ![a] = @ \cup {b}]
         /\ pending' = [to |-> b, from |-> a, msg |-> m, request_reply |-> rr]
         /\ depth' = 1
         /\ outcome' = "running"
    ELSE /\ messages' = msgs
         /\ appended' = app
         /\ exchanged' = exchanged
         /\ Finish("ValueError")

Idle == pending = NoCall

\* The agents as constructed: A with or without a model backend and the
\* default default_auto_reply "", B without backend and with "" or None,
\* C a plain counterpart without backend and with None.
Backends == {f \in [Agents -> BOOLEAN] : ~f["B"] /\ ~f["C"]}
DefaultSettings ==
    {f \in [Agents -> DefaultAutoReplies] : f["A"] = StrMsg("") /\ f["C"] = NoneMsg}

\* ------------------------------------------------------------------- Init
\* __init__: empty defaultdicts, and generate_llm_reply registered for
\* [Agent, None].
AgentsInit ==
    /\ llm \in Backends
    /\ default_auto_reply \in DefaultSettings
    /\ max_consecutive_auto_reply \in [Agents -> AutoReplyLimits]
    /\ max_consecutive_auto_reply_dict = [a \in Agents |-> EmptyDict]
    /\ messages = [a \in Agents |-> EmptyDict]
    /\ counter = [a \in Agents |-> EmptyDict]
    /\ reply_at_receive = [a \in Agents |-> EmptyDict]
    /\ reply_func_list =
          [a \in Agents |->
              <<ReplyFuncTuple({ClassTrigger("Agent"), NoneTrigger}, "generate_llm_reply", NONE, NONE)>>]
    /\ pending = NoCall
    /\ depth = 0
    /\ outcome = "none"
    /\ calls = 0
    /\ last = NoOp
    /\ call = NoOp
    /\ dispatch = NoDispatch
    /\ auto_sent = [a \in Agents |-> EmptyDict]
    /\ appended = [a \in Agents |-> EmptyDict]
    /\ exchanged = [a \in Agents |-> {}]
    /\ result = NoResult
    /\ sb_messages = EmptyDict
    /\ sandboxes = EmptyDict
    /\ lasted_updated = EmptyDict
    /\ lu_keys = <<>>
    /\ threads = [t \in Threads |-> NoThreadCall]
    /\ now = 0
    /\ created = 0
    /\ sb = NoSandboxCall
    /\ sb_log = [n \in Names |-> <<>>]
    /\ ra_messages = EmptyDict
    /\ ra = NoRetrievalCall
    /\ reachable = TRUE

\* The RetrievalAgent with the default update_context_retry and an empty store.
Init ==
    /\ AgentsInit
    /\ update_context_retry = UpdateContextRetry
    /\ chunks = 0
    /\ code_execution_config = EmptyDict

\* ---------------------------------------------------------------- actions
\* register_reply(trigger, reply_func, position, config, reset_config)
RegisterReply(a, trigger, f, position, config, rc) ==
    /\ Idle
    /\ reply_func_list' =
          [reply_func_list EXCEPT ![a] = ListInsert(@, position, ReplyFuncTuple(trigger, f, config, rc))]
    /\ last' = [Op("register_reply", a, ABSENT, NoneMsg, ABSENT) EXCEPT
                    !.position = position, !.reply_func = f]
    /\ call' = NoOp
    /\ dispatch' = NoDispatch
    /\ UNCHANGED <<config_vars, messages, counter, reply_at_receive, pending, depth,
                   outcome, calls, auto_sent, appended, exchanged, ext_vars>>

\* send(message, recipient, request_reply), called on a by the driver
Send(a, b, m, rr) ==
    /\ Idle
    /\ calls < MaxCalls
    /\ calls' = calls + 1
    /\ last' = Op("send", a, b, m, rr)
    /\ call' = last'
    /\ SendFrom(a, b, m, rr, messages, appended)
    /\ dispatch' = NoDispatch
    /\ UNCHANGED <<config_vars, counter, reply_at_receive, reply_func_list, auto_sent,
                   ext_vars>>

\* Faulty variant of PrepareHistory: only the initiator's side is cleared.
PrepareHistoryOwnSide(msgs, a, b, clear) ==
    IF clear THEN [msgs EXCEPT ![a] = DictPut(@, b, <<>>)] ELSE msgs

\* _prepare_chat, lines 285-287: both sides' history of each other is
\* cleared when clear_history is true
PrepareHistory(msgs, a, b, clear) ==
    IF clear
    THEN [msgs EXCEPT ![a] = DictPut(@, b, <<>>), ![b] = DictPut(@, a, <<>>)]
    ELSE msgs

\* initiate_chat(recipient, clear_history, message=m): _prepare_chat, then send
InitiateChat(a, b, clear, m) ==
    LET cleared == PrepareHistory(messages, a, b, clear)
        zeroed == [appended EXCEPT ![a] = DictPut(@, b, 0), ![b] = DictPut(@, a, 0)]
    IN  /\ Idle
        /\ calls < MaxCalls
        /\ calls' = calls + 1
        /\ last' = Op(IF clear THEN "initiate_chat" ELSE "initiate_chat_keep", a, b, m, "None")
        /\ call' = last'
        /\ counter' = [counter EXCEPT ![a] = DictPut(@, b, 0), ![b] = DictPut(@, a, 0)]
        /\ auto_sent' = [auto_sent EXCEPT ![a] = DictPut(@, b, 0), ![b] = DictPut(@, a, 0)]
        /\ reply_at_receive' =
              [reply_at_receive EXCEPT ![a] = DictPut(@, b, TRUE), ![b] = DictPut(@, a, TRUE)]
        /\ SendFrom(a, b, m, "None", cleared, IF clear THEN zeroed ELSE appended)
        /\ dispatch' = NoDispatch
        /\ UNCHANGED <<config_vars, reply_func_list, ext_vars>>

\* receive(message, sender, request_reply), called on a by the driver
ReceiveCall(a, s, m, rr) ==
    /\ Idle
    /\ calls < MaxCalls
    /\ calls' = calls + 1
    /\ call' = Op("receive", a, s, m, rr)
    /\ \E out \in LlmOutputs : Receive(a, s, m, rr, out, 1)

\* the receive call in flight runs
ReceiveStep ==
    /\ ~Idle
    /\ UNCHANGED <<calls, call>>
    /\ \E out \in LlmOutputs :
          Receive(pending.to, pending.from, pending.msg, pending.request_reply, out, depth)

\* Faulty variant of ClearedHistories: the lists are shared with the
\* counterparts, whose histories of a are emptied as well.
ClearedHistoriesShared(msgs, a, agent) ==
    [x \in Agents |->
        IF x = a THEN (IF agent = NoSender THEN EmptyDict ELSE DictPut(msgs[a], agent, <<>>))
        ELSE IF a \in DOMAIN msgs[x] /\ agent \in {NoSender, x} THEN DictPut(msgs[x], a, <<>>)
        ELSE msgs[x]]

\* clear_history, lines 275-278, on the histories of all agents: only a's
\* own _messages is touched
ClearedHistories(msgs, a, agent) ==
    [msgs EXCEPT ![a] = IF agent = NoSender THEN EmptyDict ELSE DictPut(@, agent, <<>>)]

\* Faulty variant of ResetEntry: the config is left as the handlers changed it.
ResetEntryKeepsConfig(entry) == entry

\* reset, the loop body: reset_config(config) when one is registered, else a
\* copy of init_config
ResetEntry(entry) ==
    IF entry.reset_config # NONE
    THEN [entry EXCEPT !.config = ApplyResetConfig(entry.reset_config, entry.config)]
    ELSE [entry EXCEPT !.config = entry.init_config]

\* reset()
Reset(a) ==
    /\ messages' = ClearedHistories(messages, a, NoSender)
    /\ appended' = [appended EXCEPT ![a] = EmptyDict]
    /\ counter' = [counter EXCEPT ![a] = EmptyDict]
    /\ auto_sent' = [auto_sent EXCEPT ![a] = EmptyDict]
    /\ reply_at_receive' = [reply_at_receive EXCEPT ![a] = EmptyDict]
    /\ reply_func_list' =
          [reply_func_list EXCEPT ![a] =
              [i \in 1..Len(reply_func_list[a]) |-> ResetEntry(reply_func_list[a][i])]]
    /\ Idle
    /\ last' = Op("reset", a, ABSENT, NoneMsg, ABSENT)
    /\ call' = NoOp
    /\ dispatch' = NoDispatch
    /\ UNCHANGED <<config_vars, pending, depth, outcome, calls, exchanged, ext_vars>>

\* generate_reply(messages, sender, exclude), called on a by the driver
GenerateReplyCall(a, given, sender, exclude) ==
    /\ Idle
    /\ last' = Op("generate_reply", a, sender, NoneMsg, ABSENT)
    /\ call' = last'
    /\ UNCHANGED <<config_vars, counter, reply_at_receive, pending, depth, calls,
                   auto_sent, appended, exchanged, ext_vars>>
    /\ IF ~given /\ sender = NoSender
       THEN /\ outcome' = "AssertionError"
            /\ dispatch' = NoDispatch
            /\ UNCHANGED <<messages, reply_func_list>>
       ELSE \E out \in LlmOutputs :
            LET g == GenerateReply(a, sender, exclude, out)
            IN  /\ outcome' = IF g.raised THEN "BackendError" ELSE "returned"
                /\ messages' = IF given THEN messages
                               ELSE [messages EXCEPT ![a] = DictTouch(@, sender, <<>>)]
                /\ reply_func_list' = [reply_func_list EXCEPT ![a] = g.chain]
                /\ dispatch' = DispatchRecord(a, sender, exclude, g)

\* clear_history(agent): every conversation when agent is None, else the
\* list of that counterpart is emptied (a missing one is created).
ClearHistory(a, agent) ==
    /\ Idle
    /\ messages' = ClearedHistories(messages, a, agent)
    /\ appended' = [appended EXCEPT ![a] = IF agent = NoSender THEN EmptyDict
                                           ELSE DictPut(@, agent, 0)]
    /\ last' = Op("clear_history", a, agent, NoneMsg, ABSENT)
    /\ call' = NoOp
    /\ dispatch' = NoDispatch
    /\ UNCHANGED <<config_vars, counter, reply_at_receive, reply_func_list, pending,
                   depth, outcome, calls, auto_sent, exchanged, ext_vars>>

Returned(conversation) ==
    IF Len(conversation) = 0
    THEN [how |-> "IndexError", value |-> <<>>]
    ELSE [how |-> "message", value |-> <<conversation[Len(conversation)]>>]

\* last_message(agent): what it returns or raises
LastMessageResult(msgs, agent) ==
    IF agent = NoSender
    THEN IF Cardinality(DOMAIN msgs) = 0 THEN [how |-> "None", value |-> <<>>]
         ELSE IF Cardinality(DOMAIN msgs) = 1
         THEN Returned(msgs[CHOOSE c \in DOMAIN msgs : TRUE])
         ELSE [how |-> "ValueError", value |-> <<>>]
    ELSE IF agent \notin DOMAIN msgs THEN [how |-> "KeyError", value |-> <<>>]
    ELSE Returned(msgs[agent])

\* last_message(agent), called on a by the driver
LastMessage(a, agent) ==
    /\ Idle
    /\ result' = LastMessageResult(messages[a], agent)
    /\ last' = Op("last_message", a, agent, NoneMsg, ABSENT)
    /\ call' = NoOp
    /\ dispatch' = NoDispatch
    /\ UNCHANGED <<config_vars, messages, counter, reply_at_receive, reply_func_list,
                   pending, depth, outcome, calls, auto_sent, appended, exchanged,
                   sandbox_vars, retrieval_vars>>

\* chat_messages[agent]: the history with a counterpart, read from the
\* defaultdict the property returns
ChatMessages(a, agent) ==
    /\ Idle
    /\ result' = [how |-> "list", value |-> DictGet(messages[a], agent, <<>>)]
    /\ messages' = [messages EXCEPT ![a] = DictTouch(@, agent, <<>>)]
    /\ last' = Op("chat_messages", a, agent, NoneMsg, ABSENT)
    /\ call' = NoOp
    /\ dispatch' = NoDispatch
    /\ UNCHANGED <<config_vars, counter, reply_at_receive, reply_func_list, pending,
                   depth, outcome, calls, auto_sent, appended, exchanged, sandbox_vars, retrieval_vars>>

\* Faulty variant of StopReplyAt: every counterpart's entry is dropped.
StopReplyAtAll(rar, sender) == EmptyDict

\* stop_reply_at_receive, lines 257-260, on the reply_at_receive of one agent
StopReplyAt(rar, sender) ==
    IF sender = NoSender THEN EmptyDict ELSE DictPut(rar, sender, FALSE)

\* stop_reply_at_receive(sender)
StopReplyAtReceive(a, sender) ==
    /\ Idle
    /\ reply_at_receive' = [reply_at_receive EXCEPT ![a] = StopReplyAt(@, sender)]
    /\ last' = Op("stop_reply_at_receive", a, sender, NoneMsg, ABSENT)
    /\ call' = NoOp
    /\ dispatch' = NoDispatch
    /\ UNCHANGED <<config_vars, messages, counter, reply_func_list, pending, depth,
                   outcome, calls, auto_sent, appended, exchanged, ext_vars>>

\* reset_consecutive_auto_reply_counter(sender)
ResetConsecutiveAutoReplyCounter(a, sender) ==
    /\ Idle
    /\ counter' = [counter EXCEPT ![a] = IF sender = NoSender THEN EmptyDict
                                         ELSE DictPut(@, sender, 0)]
    /\ auto_sent' = [auto_sent EXCEPT ![a] = IF sender = NoSender THEN EmptyDict
                                             ELSE DictPut(@, sender, 0)]
    /\ last' = Op("reset_consecutive_auto_reply_counter", a, sender, NoneMsg, ABSENT)
    /\ call' = NoOp
    /\ dispatch' = NoDispatch
    /\ UNCHANGED <<config_vars, messages, reply_at_receive, reply_func_list, pending,
                   depth, outcome, calls, appended, exchanged, ext_vars>>

\* update_max_consecutive_auto_reply(value, sender)
UpdateMaxConsecutiveAutoReply(a, value, sender) ==
    /\ Idle
    /\ max_consecutive_auto_reply' =
          IF sender = NoSender THEN [max_consecutive_auto_reply EXCEPT ![a] = value]
          ELSE max_consecutive_auto_reply
    /\ max_consecutive_auto_reply_dict' =
          [max_consecutive_auto_reply_dict EXCEPT ![a] =
              IF sender = NoSender THEN [k \in DOMAIN @ |-> value]
              ELSE DictPut(@, sender, value)]
    /\ last' = Op("update_max_consecutive_auto_reply", a, sender, NoneMsg, ABSENT)
    /\ call' = NoOp
    /\ dispatch' = NoDispatch
    /\ UNCHANGED <<llm, reachable, default_auto_reply, messages, counter, reply_at_receive,
                   reply_func_list, pending, depth, outcome, calls, auto_sent, appended,
                   exchanged, ext_vars>>

\* max_consecutive_auto_reply(sender): the limit for a counterpart, read from
\* the defaultdict whose default is the agent-wide limit at that moment
MaxConsecutiveAutoReply(a, sender) ==
    /\ Idle
    /\ result' = [how |-> "int",
                  value |-> <<IF sender = NoSender THEN max_consecutive_auto_reply[a]
                              ELSE DictGet(max_consecutive_auto_reply_dict[a], sender,
                                           max_consecutive_auto_reply[a])>>]
    /\ max_consecutive_auto_reply_dict' =
          IF sender = NoSender THEN max_consecutive_auto_reply_dict
          ELSE [max_consecutive_auto_reply_dict EXCEPT ![a] =
                   DictTouch(@, sender, max_consecutive_auto_reply[a])]
    /\ last' = Op("max_consecutive_auto_reply", a, sender, NoneMsg, ABSENT)
    /\ call' = NoOp
    /\ dispatch' = NoDispatch
    /\ UNCHANGED <<llm, reachable, default_auto_reply, max_consecutive_auto_reply, messages,
                   counter, reply_at_receive, reply_func_list, pending, depth, outcome,
                   calls, auto_sent, appended, exchanged, sandbox_vars, retrieval_vars>>

\* ------------------------------------------------------------ the driver
\* Entries the driver registers while agents converse.
ChatEntries ==
    { ReplyFuncTuple({NameTrigger("C")}, "reply_ok", NONE, NONE),
      ReplyFuncTuple({ClassTrigger("Agent"), NoneTrigger}, "final_none", NONE, NONE),
      ReplyFuncTuple({ClassTrigger("Agent"), NoneTrigger}, "decline", "c1", NONE),
      ReplyFuncTuple({ClassTrigger("Agent"), NoneTrigger}, "decline", "c1", "clear") }

Next ==
    \/ \E e \in ChatEntries :
          /\ Len(reply_func_list["B"]) < MaxChatChain
          /\ RegisterReply("B", e.trigger, e.reply_func, 0, e.init_config, e.reset_config)
    \/ \E b \in {"B", "C"}, m \in InputMessages, rr \in RequestReply :
          Send("A", b, m, rr)
    \/ \E clear \in BOOLEAN, m \in InputMessages :
          InitiateChat("A", "B", clear, m)
    \/ \E m \in InputMessages, rr \in RequestReply :
          ReceiveCall("B", "C", m, rr)
    \/ ReceiveStep
    \/ \E a \in {"A", "B"} : Reset(a)

Spec == Init /\ [][Next]_vars

\* ------------------------------------------------- dispatch on its own
\* Entries registered when generate_reply is exercised on its own.
Registrations ==
    { ReplyFuncTuple({ClassTrigger("Agent"), NoneTrigger}, "reply_ok", NONE, NONE),
      ReplyFuncTuple({NameTrigger("B")}, "reply_ok", NONE, NONE),
      ReplyFuncTuple({NoneTrigger}, "final_none", NONE, NONE),
      ReplyFuncTuple({InstanceTrigger("C")}, "async_reply", NONE, NONE),
      ReplyFuncTuple({ClassTrigger("Agent"), NoneTrigger}, "decline", "c1", NONE),
      ReplyFuncTuple({ClassTrigger("Agent"), NoneTrigger}, "decline", "c1", "clear") }

DispatchInit ==
    /\ Init
    /\ default_auto_reply["B"] = NoneMsg

DispatchNext ==
    \/ \E e \in Registrations, p \in 0..2 :
          /\ Len(reply_func_list["A"]) < MaxChain
          /\ RegisterReply("A", e.trigger, e.reply_func, p, e.init_config, e.reset_config)
    \/ \E given \in BOOLEAN, s \in {"B", NoSender}, ex \in Excludes :
          GenerateReplyCall("A", given, s, ex)
    \/ ReceiveCall("A", "B", StrMsg("hi"), "False")
    \/ Reset("A")

DispatchSpec == DispatchInit /\ [][DispatchNext]_vars

\* ------------------------------------------------- an unreliable backend
\* the backend becomes unreachable, or reachable again
BackendToggles ==
    /\ Idle
    /\ reachable' = ~reachable
    /\ last' = NoOp
    /\ call' = NoOp
    /\ dispatch' = NoDispatch
    /\ UNCHANGED <<llm, default_auto_reply, max_consecutive_auto_reply,
                   max_consecutive_auto_reply_dict, messages, counter,
                   reply_at_receive, reply_func_list, pending, depth, outcome, calls,
                   auto_sent, appended, exchanged, ext_vars>>

\* Entries registered before or after generate_llm_reply.
BackendEntries ==
    { ReplyFuncTuple({ClassTrigger("Agent"), NoneTrigger}, "reply_ok", NONE, NONE),
      ReplyFuncTuple({ClassTrigger("Agent"), NoneTrigger}, "decline", "c1", NONE) }

\* Agent A has a backend.
BackendInit ==
    /\ Init
    /\ llm["A"]
    /\ default_auto_reply["B"] = NoneMsg

BackendNext ==
    \/ BackendToggles
    \/ \E e \in BackendEntries, p \in 0..1 :
          /\ Len(reply_func_list["A"]) < MaxChain
          /\ RegisterReply("A", e.trigger, e.reply_func, p, e.init_config, e.reset_config)
    \/ \E given \in BOOLEAN : GenerateReplyCall("A", given, "B", {})
    \/ \E rr \in {"True", "False"} : ReceiveCall("A", "B", StrMsg("hi"), rr)
    \/ ReceiveStep

BackendSpec == BackendInit /\ [][BackendNext]_vars

\* ------------------------------------------------------ PythonSandboxAgent
\* check_sandbox_timeout(): the names untouched for longer than the timeout
Expired(lu, t) == {n \in DOMAIN lu : t - lu[n] > SandboxTimeout}
\* del d[k] for every k of keys
Without(d, keys) == [k \in DOMAIN d \ keys |-> d[k]]

\* CodeSandbox.__init__: no session variables
NewSandbox(id) ==
    [id |-> id, session_variables |-> {},
     stdout |-> OriginalStreams.stdout, stderr |-> OriginalStreams.stderr]

\* s without its entries equal to x
Remove(s, x) == SelectSeq(s, LAMBDA y : y # x)

\* check_sandbox_timeout, the second loop over remove_names: the sandbox of
\* each name is deleted, then its timestamp; a name without a sandbox ends
\* the loop with KeyError.
RECURSIVE RemoveNames(_, _, _, _)
RemoveNames(pool, lu, keys, remove_names) ==
    IF remove_names = <<>>
    THEN [sandboxes |-> pool, lasted_updated |-> lu, lu_keys |-> keys, raised |-> FALSE]
    ELSE LET name == Head(remove_names)
         IN  IF name \notin DOMAIN pool
             THEN [sandboxes |-> pool, lasted_updated |-> lu, lu_keys |-> keys,
                   raised |-> TRUE]
             ELSE RemoveNames(Without(pool, {name}), Without(lu, {name}),
                              Remove(keys, name), Tail(remove_names))

\* check_sandbox_timeout() at time t
CheckSandboxTimeout(pool, lu, keys, t) ==
    RemoveNames(pool, lu, keys, SelectSeq(keys, LAMBDA n : n \in Expired(lu, t)))

\* get_or_create_sandbox(name, ...) at time t: the name's timestamp is set,
\* then the expired names are dropped, then the name's sandbox is returned,
\* created when the pool has none; ok tells whether the runtime creates the
\* actor or raises.
GetOrCreate(pool, lu, keys, name, t, n, ok) ==
    LET lu1 == DictPut(lu, name, t)
        keys1 == IF name \in DOMAIN lu THEN keys ELSE Append(keys, name)
        c == CheckSandboxTimeout(pool, lu1, keys1, t)
        present == name \in DOMAIN c.sandboxes
        creates == ~c.raised /\ ~present /\ ok
    IN  [lasted_updated |-> c.lasted_updated,
         lu_keys |-> c.lu_keys,
         sandboxes |-> IF creates THEN DictPut(c.sandboxes, name, NewSandbox(n + 1))
                       ELSE c.sandboxes,
         fresh |-> creates,
         created |-> IF creates THEN n + 1 ELSE n,
         outcome |-> IF c.raised THEN "KeyError"
                     ELSE IF present \/ ok THEN "sandbox" ELSE "ActorError",
         raised_in |-> IF c.raised THEN "check_sandbox_timeout"
                       ELSE IF present \/ ok THEN ABSENT ELSE "remote"]

Untouched(name) ==
    name \in DOMAIN lasted_updated /\ now - lasted_updated[name] > SandboxTimeout

SandboxCall(op, name) ==
    [NoSandboxCall EXCEPT !.op = op, !.name = name,
                          !.absent = name \notin DOMAIN sandboxes,
                          !.stale = Untouched(name)]

\* get_or_create_sandbox(name, None, None, 0, 0), called by the driver
GetOrCreateSandbox(name, ok) ==
    LET g == GetOrCreate(sandboxes, lasted_updated, lu_keys, name, now, created, ok)
    IN  /\ created < MaxCreated
        /\ sandboxes' = g.sandboxes
        /\ lasted_updated' = g.lasted_updated
        /\ lu_keys' = g.lu_keys
        /\ created' = g.created
        /\ sb' = [SandboxCall("get_or_create_sandbox", name) EXCEPT
                      !.outcome = g.outcome, !.fresh = g.fresh, !.raised_in = g.raised_in,
                      !.session_variables =
                          IF g.outcome = "sandbox" THEN g.sandboxes[name].session_variables
                          ELSE {}]
        /\ UNCHANGED <<conv_vars, result, retrieval_vars, threads, sb_messages, now, sb_log,
                   code_execution_config>>

\* get_sandbox(name): the expired names are dropped, then self.sandboxes[name]
GetSandbox(name) ==
    LET c == CheckSandboxTimeout(sandboxes, lasted_updated, lu_keys, now)
    IN  /\ sandboxes' = c.sandboxes
        /\ lasted_updated' = c.lasted_updated
        /\ lu_keys' = c.lu_keys
        /\ sb' = IF c.raised
                 THEN [SandboxCall("get_sandbox", name) EXCEPT
                          !.outcome = "KeyError", !.raised_in = "check_sandbox_timeout"]
                 ELSE IF name \in DOMAIN c.sandboxes
                 THEN [SandboxCall("get_sandbox", name) EXCEPT
                          !.outcome = "sandbox",
                          !.session_variables = c.sandboxes[name].session_variables]
                 ELSE [SandboxCall("get_sandbox", name) EXCEPT
                          !.outcome = "KeyError", !.raised_in = "get_sandbox"]
        /\ UNCHANGED <<conv_vars, result, retrieval_vars, threads, sb_messages, now, created, sb_log, code_execution_config>>

\* check_sandbox_timeout(), called by the driver
CheckSandboxTimeoutCall ==
    LET c == CheckSandboxTimeout(sandboxes, lasted_updated, lu_keys, now)
    IN  /\ sandboxes' = c.sandboxes
        /\ lasted_updated' = c.lasted_updated
        /\ lu_keys' = c.lu_keys
        /\ sb' = [NoSandboxCall EXCEPT
                      !.op = "check_sandbox_timeout",
                      !.outcome = IF c.raised THEN "KeyError" ELSE "returned",
                      !.raised_in = IF c.raised THEN "check_sandbox_timeout" ELSE ABSENT]
        /\ UNCHANGED <<conv_vars, result, retrieval_vars, threads, sb_messages, now, created, sb_log, code_execution_config>>

\* force_clear()
ForceClear ==
    /\ sandboxes' = EmptyDict
    /\ lasted_updated' = EmptyDict
    /\ lu_keys' = <<>>
    /\ sb' = [NoSandboxCall EXCEPT !.op = "force_clear", !.outcome = "returned"]
    /\ UNCHANGED <<conv_vars, result, retrieval_vars, threads, sb_messages, now, created, sb_log, code_execution_config>>

\* CodeSandbox.set_value(name, value) on the sandbox of a counterpart
SetValue(name) ==
    /\ name \in DOMAIN sandboxes
    /\ sandboxes' = [sandboxes EXCEPT ![name].session_variables = @ \cup {"v"}]
    /\ sb' = [SandboxCall("set_value", name) EXCEPT !.outcome = "returned"]
    /\ UNCHANGED <<conv_vars, result, retrieval_vars, threads, sb_messages, lasted_updated, lu_keys,
                   now, created, sb_log, code_execution_config>>

\* exec_capture_output(code) on the sandbox of a counterpart, awaited by the
\* caller (target_names is the default, a dict)
SandboxExec(name, code) ==
    LET r == ExecCaptureOutput(code, "dict")
    IN  /\ name \in DOMAIN sandboxes
        /\ sandboxes' = Ran(sandboxes, name, code, "dict")
        /\ sb' = [SandboxCall("exec_capture_output", name) EXCEPT
                      !.outcome = IF r.kind = "raised" THEN r.exception ELSE "returned",
                      !.status = r.exitcode, !.output = r.output, !.code = code]
        /\ UNCHANGED <<conv_vars, result, retrieval_vars, threads, sb_messages,
                       lasted_updated, lu_keys, now, created, sb_log, code_execution_config>>

\* time passes
Tick ==
    /\ now < MaxTime
    /\ now' = now + 1
    /\ UNCHANGED <<conv_vars, result, retrieval_vars, threads, sb_messages, sandboxes,
                   lasted_updated, lu_keys, created, sb, sb_log, code_execution_config>>

StoredCount == Len(sb_log["X"]) + Len(sb_log["Y"])

\* receive(message, sender, request_reply=False) of the PythonSandboxAgent,
\* inherited: the message is appended under the sender it is given.
SandboxReceive(h, content) ==
    /\ StoredCount < MaxSandboxMessages
    /\ sb_messages' = AppendMessage(sb_messages, StrMsg(content), "user", h)
    /\ sb_log' = [sb_log EXCEPT ![GetAgentName(h)] = Append(@, OaiMessage(StrMsg(content), "user"))]
    /\ sb' = [SandboxCall("receive", GetAgentName(h)) EXCEPT !.sender = h, !.outcome = "returned"]
    /\ UNCHANGED <<conv_vars, result, retrieval_vars, threads, sandboxes, lasted_updated, lu_keys,
                   now, created, code_execution_config>>

\* ConversableAgent.check_termination_and_human_reply, the entry registered
\* last and so called first: inconclusive while the conversation goes on.
CheckTerminationAndHumanReply(msgs) == [final |-> FALSE]

\* code_execution_config.pop("last_n_messages", 1): the value, and the dict left
LastNMessages(config) == DictGet(config, "last_n_messages", 1)
Popped(config) == [k \in DOMAIN config \ {"last_n_messages"} |-> config[k]]

\* generate_execute_code_reply, the tests that pass over a message: no
\* content, or a single block of language "unknown"
NoCode(message) ==
    \/ message.content \in {NONE, ""}
    \/ LET code_blocks == ExtractCode(message.content)
       IN  Len(code_blocks) = 1 /\ code_blocks[1].lang = "unknown"

\* generate_execute_code_reply, the loop over range(min(len(messages),
\* last_n_messages)) from i on: the position in messages of the first message
\* that is not passed over, 0 when the loop ends without one.
RECURSIVE FirstWithCode(_, _, _)
FirstWithCode(msgs, n, i) ==
    IF i >= Min(Len(msgs), n) THEN 0
    ELSE IF NoCode(msgs[Len(msgs) - i]) THEN FirstWithCode(msgs, n, i + 1)
    ELSE Len(msgs) - i

\* [code_block[1] for code_block in code_blocks if code_block[0] == "python"]
PythonCodes(code_blocks) ==
    LET python == SelectSeq(code_blocks, LAMBDA b : b.lang = "python")
    IN  [k \in 1..Len(python) |-> python[k].code]

Inconclusive(config) ==
    [final |-> FALSE, outcome |-> "returned", status |-> -1, output |-> ABSENT,
     code |-> ABSENT, executes |-> FALSE, index |-> 0,
     config |-> DictPut(Popped(config), "last_n_messages", LastNMessages(config))]

\* generate_execute_code_reply(messages=msgs, sender) under config: the
\* newest last_n_messages messages are searched for code; the python blocks
\* of the first message with code are run in the sender's sandbox, which
\* get_or_create_sandbox gives as g, and the result of the remote call is
\* unpacked. last_n_messages is written back on the paths that return.
ExecuteCodeReply(msgs, config, g) ==
    LET n == LastNMessages(config)
        index == FirstWithCode(msgs, n, 0)
        code_str == JoinCodes(PythonCodes(ExtractCode(msgs[index].content)))
        ref == Remote(ExecCaptureOutput(code_str, "list"))
    IN  IF index = 0 THEN Inconclusive(config)
        ELSE IF g.outcome # "sandbox"
        THEN [final |-> FALSE, outcome |-> g.outcome, status |-> -1, output |-> ABSENT,
              code |-> code_str, executes |-> TRUE, index |-> index,
              config |-> Popped(config)]
        ELSE IF Unpacks(ref)
        THEN [final |-> TRUE, outcome |-> "returned", status |-> ref.exitcode,
              output |-> ref.output, code |-> code_str, executes |-> TRUE,
              index |-> index,
              config |-> DictPut(Popped(config), "last_n_messages", n)]
        ELSE [final |-> FALSE, outcome |-> "TypeError", status |-> -1,
              output |-> ABSENT, code |-> code_str, executes |-> TRUE, index |-> index,
              config |-> Popped(config)]

\* PythonSandboxAgent.generate_reply(messages, sender): without messages the
\* history is read under the sender's name; receive passes
\* chat_messages[sender]. ok tells whether the runtime creates an actor it
\* is asked for. The call submitted to the sandbox runs there, whatever
\* becomes of its result in the handler.
SandboxGenerateReply(h, given, ok) ==
    LET key == IF given THEN h ELSE GetAgentName(h)
        msgs == DictGet(sb_messages, key, <<>>)
        first == CheckTerminationAndHumanReply(msgs)
        g == GetOrCreate(sandboxes, lasted_updated, lu_keys, GetAgentName(h), now, created, ok)
        r == ExecuteCodeReply(msgs, code_execution_config, g)
    IN  /\ created < MaxCreated
        /\ ~first.final
        /\ sb_messages' = DictTouch(sb_messages, key, <<>>)
        /\ sandboxes' = IF ~r.executes THEN sandboxes
                        ELSE IF g.outcome = "sandbox"
                        THEN Ran(g.sandboxes, GetAgentName(h), r.code, "list")
                        ELSE g.sandboxes
        /\ lasted_updated' = IF r.executes THEN g.lasted_updated ELSE lasted_updated
        /\ lu_keys' = IF r.executes THEN g.lu_keys ELSE lu_keys
        /\ created' = IF r.executes THEN g.created ELSE created
        /\ code_execution_config' = r.config
        /\ sb' = [SandboxCall("generate_reply", GetAgentName(h)) EXCEPT
                      !.sender = h, !.given = given, !.read = msgs,
                      !.outcome = r.outcome, !.final = r.final, !.status = r.status,
                      !.output = r.output, !.code = r.code,
                      !.fresh = r.executes /\ g.fresh,
                      !.raised_in = IF r.executes THEN g.raised_in ELSE ABSENT,
                      !.last_n_messages = LastNMessages(code_execution_config),
                      !.index = r.index]
        /\ UNCHANGED <<conv_vars, result, retrieval_vars, threads, now, sb_log>>

SandboxInit ==
    /\ Init
    /\ ~llm["A"]
    /\ default_auto_reply["B"] = NoneMsg

\* The sandbox pool over time.
SandboxNext ==
    \/ \E n \in Names, ok \in BOOLEAN : GetOrCreateSandbox(n, ok)
    \/ \E n \in Names : GetSandbox(n)
    \/ \E n \in Names : SetValue(n)
    \/ CheckSandboxTimeoutCall
    \/ ForceClear
    \/ Tick

SandboxSpec == SandboxInit /\ [][SandboxNext]_vars

\* ----------------------------------- get_or_create_sandbox, line by line
\* Thread t calls get_or_create_sandbox(name, None, None, 0, 0); the call
\* overlaps one of another thread that is inside the method.
ThreadFrame == <<conv_vars, result, retrieval_vars, sb_messages, now, sb, sb_log,
                 code_execution_config>>

Inside(t) == threads[t].pc \notin {"idle", "done"}

GetOrCreateBegin(t, name) ==
    /\ ~Inside(t)
    /\ threads' =
          [u \in Threads |->
              IF u = t
              THEN [NoThreadCall EXCEPT !.pc = "204", !.name = name,
                                        !.overlapped = \E v \in Threads \ {t} : Inside(v)]
              ELSE IF Inside(u) THEN [threads[u] EXCEPT !.overlapped = TRUE]
              ELSE threads[u]]
    /\ UNCHANGED <<ThreadFrame, sandboxes, lasted_updated, lu_keys, created>>

\* line 204: self.lasted_updated[name] = time.time()
GetOrCreateStamp(t) ==
    LET name == threads[t].name
    IN  /\ threads[t].pc = "204"
        /\ lasted_updated' = DictPut(lasted_updated, name, now)
        /\ lu_keys' = IF name \in DOMAIN lasted_updated THEN lu_keys ELSE Append(lu_keys, name)
        /\ threads' = [threads EXCEPT ![t].pc = "205"]
        /\ UNCHANGED <<ThreadFrame, sandboxes, created>>

\* line 205: self.check_sandbox_timeout()
GetOrCreateCheck(t) ==
    LET c == CheckSandboxTimeout(sandboxes, lasted_updated, lu_keys, now)
    IN  /\ threads[t].pc = "205"
        /\ sandboxes' = c.sandboxes
        /\ lasted_updated' = c.lasted_updated
        /\ lu_keys' = c.lu_keys
        /\ threads' = IF c.raised
                      THEN [threads EXCEPT ![t].pc = "done", ![t].outcome = "KeyError"]
                      ELSE [threads EXCEPT ![t].pc = "206"]
        /\ UNCHANGED <<ThreadFrame, created>>

\* lines 206-207: if name in self.sandboxes: return self.sandboxes[name]
GetOrCreateTest(t) ==
    LET name == threads[t].name
    IN  /\ threads[t].pc = "206"
        /\ threads' = IF name \in DOMAIN sandboxes
                      THEN [threads EXCEPT ![t].pc = "done", ![t].outcome = "sandbox",
                                           ![t].got = sandboxes[name].id]
                      ELSE [threads EXCEPT ![t].pc = "209"]
        /\ UNCHANGED <<ThreadFrame, sandboxes, lasted_updated, lu_keys, created>>

\* lines 209-213: the runtime is asked for an actor of that name; ok tells
\* whether it creates one or raises.
GetOrCreateRemote(t, ok) ==
    /\ threads[t].pc = "209"
    /\ created < MaxCreated
    /\ created' = IF ok THEN created + 1 ELSE created
    /\ threads' = IF ok
                  THEN [threads EXCEPT ![t].pc = "214", ![t].sandbox = created + 1]
                  ELSE [threads EXCEPT ![t].pc = "done", ![t].outcome = "ActorError"]
    /\ UNCHANGED <<ThreadFrame, sandboxes, lasted_updated, lu_keys>>

\* lines 214-215: self.sandboxes[name] = sandbox; return sandbox
GetOrCreateStore(t) ==
    /\ threads[t].pc = "214"
    /\ sandboxes' = DictPut(sandboxes, threads[t].name, NewSandbox(threads[t].sandbox))
    /\ threads' = [threads EXCEPT ![t].pc = "done", ![t].outcome = "sandbox",
                                  ![t].got = threads[t].sandbox]
    /\ UNCHANGED <<ThreadFrame, lasted_updated, lu_keys, created>>

\* Two threads in get_or_create_sandbox.
ThreadsNext ==
    \/ \E t \in Threads, n \in Names : GetOrCreateBegin(t, n)
    \/ \E t \in Threads : GetOrCreateStamp(t)
    \/ \E t \in Threads : GetOrCreateCheck(t)
    \/ \E t \in Threads : GetOrCreateTest(t)
    \/ \E t \in Threads, ok \in BOOLEAN : GetOrCreateRemote(t, ok)
    \/ \E t \in Threads : GetOrCreateStore(t)

ThreadsSpec == SandboxInit /\ [][ThreadsNext]_vars

\* Messages with code, and the replies to them.
CodeReplyNext ==
    \/ \E h \in Handles, c \in CodeContents : SandboxReceive(h, c)
    \/ \E h \in Handles, given \in BOOLEAN : SandboxGenerateReply(h, given, TRUE)
    \/ \E ok \in BOOLEAN : GetOrCreateSandbox("X", ok)
    \/ \E c \in Codes : SandboxExec("X", c)

CodeReplySpec == SandboxInit /\ [][CodeReplyNext]_vars

\* Agents of every last_n_messages, messages of every shape, and a runtime
\* that may fail to create the sandbox.
LookbackInit ==
    /\ AgentsInit
    /\ ~llm["A"]
    /\ default_auto_reply["B"] = NoneMsg
    /\ update_context_retry = UpdateContextRetry
    /\ chunks = 0
    /\ code_execution_config \in CodeExecutionConfigs

LookbackNext ==
    \/ \E c \in LookbackContents : SandboxReceive("h1", c)
    \/ \E ok \in BOOLEAN : SandboxGenerateReply("h1", TRUE, ok)

LookbackSpec == LookbackInit /\ [][LookbackNext]_vars

\* ---------------------------------------------------------- RetrievalAgent
\* _owner_filter(owner) called with args arguments after self
OwnerFilter(args) == IF args = 1 THEN "filter" ELSE "TypeError"

\* search_content_chunks(q, limit, return_json=False) on a store holding n
\* chunks for q: the filter is built first, by _owner_filter().
SearchContentChunks(n, limit) ==
    IF OwnerFilter(0) = "TypeError"
    THEN [raised |-> "TypeError", docs |-> 0]
    ELSE [raised |-> NONE, docs |-> Min(n, limit)]

\* generate_llm_reply(None, [prompt], sender) as the handler calls it: the
\* list is bound to sender and, messages being None, used as the key of
\* _messages; given messages, the backend answers out.
RetrievalLlmReply(messages_given, sender_is_list, out) ==
    IF ~messages_given /\ sender_is_list
    THEN [raised |-> "TypeError", v |-> NONE, called |-> 0]
    ELSE [raised |-> NONE, v |-> out, called |-> 1]

\* "UPDATE CONTEXT" in v[-20:].upper() or "UPDATE CONTEXT" in v[:20].upper()
UpdateContextCase(v) == v = UpdateContext

\* generate_retrieval_based_reply from the first model call on: r is the
\* result of the latest call, made for contents[current_doc].
RECURSIVE UpdateContextLoop(_, _, _, _, _, _)
UpdateContextLoop(current_doc, retry, len, r, n_calls, out) ==
    IF r.raised # NONE
    THEN [outcome |-> r.raised, value |-> ABSENT, llm_calls |-> n_calls]
    ELSE IF ~UpdateContextCase(r.v)
    THEN [outcome |-> "returned", value |-> r.v, llm_calls |-> n_calls]
    ELSE IF current_doc + 1 >= retry \/ current_doc + 1 >= len
    THEN [outcome |-> "returned", value |-> FailToAnswer, llm_calls |-> n_calls]
    ELSE LET r1 == RetrievalLlmReply(FALSE, TRUE, out)
         IN  UpdateContextLoop(current_doc + 1, retry, len, r1, n_calls + r1.called, out)

\* generate_retrieval_based_reply(messages=msgs, sender): the newest message
\* is the question, the chunks found for it are offered to the model one
\* after the other.
RetrievalBasedReply(msgs, retry, n, out) ==
    IF Len(msgs) = 0
    THEN [outcome |-> "IndexError", value |-> ABSENT, llm_calls |-> 0]
    ELSE LET contents == SearchContentChunks(n, SearchLimit)
             r == RetrievalLlmReply(FALSE, TRUE, out)
         IN  IF contents.raised # NONE
             THEN [outcome |-> contents.raised, value |-> ABSENT, llm_calls |-> 0]
             ELSE IF contents.docs = 0
             THEN [outcome |-> "IndexError", value |-> ABSENT, llm_calls |-> 0]
             ELSE UpdateContextLoop(0, retry, contents.docs, r, r.called, out)

RetrievalStoredCount ==
    LET n(h) == Len(DictGet(ra_messages, h, <<>>))
    IN  n("h1") + n("h2")

\* receive(message, sender, request_reply=False) of the RetrievalAgent,
\* inherited: the question is appended under the sender it is given.
RetrievalReceive(h, q) ==
    /\ RetrievalStoredCount < MaxRetrievalMessages
    /\ ra_messages' = AppendMessage(ra_messages, StrMsg(q), "user", h)
    /\ ra' = [NoRetrievalCall EXCEPT !.op = "receive", !.sender = h, !.outcome = "returned"]
    /\ UNCHANGED <<conv_vars, result, sandbox_vars, update_context_retry, chunks>>

\* generate_retrieval_based_reply(messages, sender): called by generate_reply
\* with chat_messages[sender], or without messages, when the history is read
\* under the sender's name; the model answers every call with out.
RetrievalReply(h, given, out) ==
    LET key == IF given THEN h ELSE GetAgentName(h)
        msgs == DictGet(ra_messages, key, <<>>)
        r == RetrievalBasedReply(msgs, update_context_retry, chunks, out)
    IN  /\ ra_messages' = DictTouch(ra_messages, key, <<>>)
        /\ ra' = [NoRetrievalCall EXCEPT
                      !.op = "generate_retrieval_based_reply", !.sender = h,
                      !.given = given, !.response = out, !.outcome = r.outcome,
                      !.value = r.value, !.llm_calls = r.llm_calls]
        /\ UNCHANGED <<conv_vars, result, sandbox_vars, update_context_retry, chunks>>

\* RetrievalAgents of every update_context_retry over stores of every size
RetrievalInit ==
    /\ AgentsInit
    /\ ~llm["A"]
    /\ default_auto_reply["B"] = NoneMsg
    /\ update_context_retry \in 0..MaxRetry
    /\ chunks \in 0..MaxChunks
    /\ code_execution_config = EmptyDict

RetrievalNext ==
    \/ \E h \in Handles, q \in Questions : RetrievalReceive(h, q)
    \/ \E h \in Handles, given \in BOOLEAN, out \in Answers : RetrievalReply(h, given, out)

RetrievalSpec == RetrievalInit /\ [][RetrievalNext]_vars

\* ------------------------------------------- histories and their lookups
\* Messages of every shape: with and without content, function_call and a
\* role of their own.
StoreMessages ==
    { StrMsg("hi"),
      DictMsg("r", ABSENT, "function"),
      DictMsg("r", "f", "function"),
      DictMsg("x", "f", "user"),
      DictMsg(ABSENT, "f", ABSENT),
      DictMsg(ABSENT, ABSENT, "user") }

HistoryInit ==
    /\ Init
    /\ ~llm["A"]

HistoryNext ==
    \/ \E m \in StoreMessages : Send("A", "B", m, "None")
    \/ Send("A", "C", StrMsg("hi"), "False")
    \/ \E clear \in BOOLEAN, m \in {StrMsg("hi"), DictMsg(ABSENT, ABSENT, "user")} :
          InitiateChat("A", "B", clear, m)
    \/ \E m \in StoreMessages : ReceiveCall("A", "B", m, "False")
    \/ ReceiveStep
    \/ \E agent \in {NoSender, "C"} : ClearHistory("A", agent)
    \/ \E agent \in {NoSender, "B", "C"} : LastMessage("A", agent)
    \/ ChatMessages("A", "C")
    \/ GenerateReplyCall("A", FALSE, "C", {})

HistorySpec == HistoryInit /\ [][HistoryNext]_vars

\* ------------------------------------------ one agent, two counterparts
\* Limits the driver sets.
LimitValues == {2}

CounterpartsInit ==
    /\ Init
    /\ ~llm["A"]
    /\ default_auto_reply["B"] = NoneMsg

CounterpartsNext ==
    \/ \E c \in {"B", "C"} : Send("A", c, StrMsg("hi"), "None")
    \/ InitiateChat("A", "C", FALSE, StrMsg("hi"))
    \/ ReceiveCall("A", "B", StrMsg("hi"), "None")
    \/ ReceiveStep
    \/ ClearHistory("A", "B")
    \/ Reset("A")
    \/ ResetConsecutiveAutoReplyCounter("A", "B")
    \/ \E c \in {"B", "C"} : StopReplyAtReceive("A", c)
    \/ \E c \in {NoSender, "B", "C"}, v \in LimitValues : UpdateMaxConsecutiveAutoReply("A", v, c)
    \/ MaxConsecutiveAutoReply("A", "C")

CounterpartsSpec == CounterpartsInit /\ [][CounterpartsNext]_vars

\* ------------------------------------------- a conversation and its mirror
\* What B opens a conversation with: text, a function call, a function result.
OpeningMessages ==
    { StrMsg("hi"),
      DictMsg(ABSENT, "f", ABSENT),
      DictMsg("r", ABSENT, "function") }

\* B, which has no backend and no default reply, converses with A, which
\* answers every message.
MirrorInit ==
    /\ Init
    /\ default_auto_reply["B"] = NoneMsg

MirrorNext ==
    \/ \E clear \in BOOLEAN, m \in OpeningMessages : InitiateChat("B", "A", clear, m)
    \/ \E rr \in {"False", "None"} : Send("B", "A", StrMsg("hi"), rr)
    \/ ReceiveStep
    \/ Reset("A")

MirrorSpec == MirrorInit /\ [][MirrorNext]_vars

\* ================================================================= claims
IsPrefix(s, t) == Len(s) <= Len(t) /\ SubSeq(t, 1, Len(s)) = s
CarriesContentOrCall(msg) == msg.content # ABSENT \/ msg.function_call # ABSENT
InvalidInput(m) == m.kind = "dict" /\ m.content = ABSENT /\ m.function_call = ABSENT

\* Every message in any history carries content or function_call.
C1_EveryStoredMessageValid ==
    \A a \in Agents : \A c \in DOMAIN messages[a] :
        \A i \in 1..Len(messages[a][c]) : CarriesContentOrCall(messages[a][c][i])

\* A step that is a send or receive of a message with neither content nor
\* function_call ends in ValueError and leaves every history as it was.
C1_InvalidLeavesHistories ==
    (last'.op \in {"send", "receive"} /\ InvalidInput(last'.msg))
        => (outcome' = "ValueError" /\ messages' = messages /\ pending' = NoCall)

\* C1: send and receive of a message that carries neither content nor
\* function_call fail with a format error and leave every history unchanged,
\* so every stored message carries content or function_call.
C1_InvalidMessageRejected ==
    [](C1_EveryStoredMessageValid) /\ [][C1_InvalidLeavesHistories]_vars

\* C1 witness: a send or receive of an invalid message has just failed on an
\* agent that already holds history.
C1_Witness ==
    /\ last.op \in {"send", "receive"}
    /\ InvalidInput(last.msg)
    /\ outcome = "ValueError"
    /\ \E c \in DOMAIN messages[last.agent] : Len(messages[last.agent][c]) > 0

\* The step clears a's history with c: reset() of a, or initiate_chat with
\* clear_history between a and c.
ClearsHistory(op, a, c) ==
    \/ (op.op = "reset" /\ op.agent = a)
    \/ (op.op = "clear_history" /\ op.agent = a /\ op.peer \in {c, NoSender})
    \/ (op.op = "initiate_chat" /\ {op.agent, op.peer} = {a, c})

C2_LengthIsAppendCount ==
    \A a \in Agents : \A c \in DOMAIN messages[a] :
        Len(messages[a][c]) = DictGet(appended[a], c, 0)

C2_KeepsEarlierEntries ==
    \A a \in Agents : \A c \in DOMAIN messages[a] :
        ~ClearsHistory(last', a, c)
            => (c \in DOMAIN messages'[a] /\ IsPrefix(messages[a][c], messages'[a][c]))

\* C2: between clears and resets a counterpart's history is append-only and
\* ordered: its length is the number of appends that succeeded, and no step
\* removes, replaces or reorders an earlier entry.
C2_AppendOnly ==
    [](C2_LengthIsAppendCount) /\ [][C2_KeepsEarlierEntries]_vars

\* C2 witness: a history of three entries appended by send and receive in
\* turn, the last two different.
C2_Witness ==
    \E a \in Agents : \E c \in DOMAIN messages[a] :
        /\ Len(messages[a][c]) >= 3
        /\ messages[a][c][2] # messages[a][c][3]
        /\ messages[a][c][2].role # messages[a][c][3].role

\* ------------------------------------------------------------- C3 and C10
\* Entry e of agent a's chain returns (True, reply) when it is called.
Conclusive(a, e) ==
    \A out \in LlmOutputs : ReplyFuncResult(a, e.reply_func, e.config, out).final
RepliesOf(a, e) ==
    {ReplyFuncResult(a, e.reply_func, e.config, out).reply : out \in LlmOutputs}
OnlyConclusive(a, chain, k) ==
    /\ Conclusive(a, chain[k])
    /\ \A j \in 1..Len(chain) : j # k => ~Conclusive(a, chain[j])
UpTo(k) == [i \in 1..k |-> i]
\* The entry is passed over: its handler is in exclude, or is a coroutine function.
PassedOver(e, exclude) == e.reply_func \in exclude \/ IsCoroutineFunction(e.reply_func)
CalledUpTo(chain, exclude, k) ==
    SelectSeq(UpTo(k), LAMBDA i : ~PassedOver(chain[i], exclude))

C10_OnlyEligibleInvoked ==
    dispatch # NoDispatch =>
        \A n \in 1..Len(dispatch.invoked) :
            LET e == dispatch.chain[dispatch.invoked[n]]
            IN  /\ e.reply_func \notin dispatch.exclude
                /\ TriggerMatches(e.trigger, dispatch.sender)

\* --------------------------------------------------------------------- C4
\* What a step that is reset() of agent a must establish.
C4_ResetStep ==
    last'.op = "reset" =>
        LET a == last'.agent
        IN  /\ messages'[a] = EmptyDict
            /\ \A c \in Agents : DictGet(counter'[a], c, 0) = 0
            /\ reply_at_receive'[a] = EmptyDict
            /\ Len(reply_func_list'[a]) = Len(reply_func_list[a])
            /\ \A i \in 1..Len(reply_func_list[a]) :
                  LET old == reply_func_list[a][i]
                      new == reply_func_list'[a][i]
                  IN  /\ new.config =
                            IF old.reset_config = NONE
                            THEN old.init_config
                            ELSE IF old.config = NONE THEN NONE ELSE "cleared"
                      /\ new.reply_func = old.reply_func
                      /\ new.init_config = old.init_config

\* C4: from any state, reset() of agent a leaves a with no history, every
\* auto-reply counter zero, reply_at_receive empty, and every entry's config
\* equal to init_config, or to what its reset_config makes of the old config.
C4_ResetRestores == [][C4_ResetStep]_vars

\* C4 witness: B was reset after a conversation with A (A still holds its
\* side of it), and B's chain has an entry whose reset_config produced the
\* config and an entry restored from init_config.
C4_Witness ==
    /\ last.op = "reset"
    /\ last.agent = "B"
    /\ "B" \in DOMAIN messages["A"]
    /\ Len(messages["A"]["B"]) >= 2
    /\ messages["B"] = EmptyDict
    /\ \E i \in 1..Len(reply_func_list["B"]) :
          /\ reply_func_list["B"][i].reply_func = "decline"
          /\ reply_func_list["B"][i].config = "c1"

\* --------------------------------------------------------------------- C9
\* The history of a with s grew by exactly the received message.
RecordedOnly(a, s, m) ==
    /\ s \in DOMAIN messages'[a]
    /\ Len(messages'[a][s]) = Len(DictGet(messages[a], s, <<>>)) + 1
    /\ IsPrefix(DictGet(messages[a], s, <<>>), messages'[a][s])
    /\ \A b \in Agents \ {a} : messages'[b] = messages[b]

\* What a step that is a receive of a valid message must establish.
C9_ReceiveStep ==
    (last'.op = "receive" /\ ~InvalidInput(last'.msg)) =>
        LET a == last'.agent
            s == last'.peer
            rr == last'.request_reply
            flag == IF s \in DOMAIN reply_at_receive[a] THEN reply_at_receive[a][s] ELSE FALSE
        IN  IF rr = "False" \/ (rr = "None" /\ ~flag)
            THEN /\ dispatch' = NoDispatch
                 /\ RecordedOnly(a, s, last'.msg)
                 /\ pending' = NoCall
                 /\ outcome' = "returned"
                 /\ reply_func_list' = reply_func_list
            ELSE /\ dispatch' # NoDispatch
                 /\ dispatch'.agent = a
                 /\ dispatch'.sender = s

\* C9: a receive with request_reply False, or unset while
\* reply_at_receive[sender] is false or missing, records the message and
\* returns: no reply function is invoked and nothing is sent; every other
\* receive of a valid message invokes generate_reply.
C9_ReplyOnlyWhenRequested == [][C9_ReceiveStep]_vars

\* C9 witness: a receive with request_reply False from a sender whose
\* reply_at_receive flag is true returned without a reply.
C9_Witness ==
    /\ last.op = "receive"
    /\ last.request_reply = "False"
    /\ last.peer \in DOMAIN reply_at_receive[last.agent]
    /\ reply_at_receive[last.agent][last.peer]
    /\ dispatch = NoDispatch
    /\ outcome = "returned"

\* ----------------------------------------------------------- C5 .. C8
\* Every entry of b's chain declines: called, it returns no reply.
AllDecline(b) ==
    \A i \in 1..Len(reply_func_list[b]) :
        RepliesOf(b, reply_func_list[b][i]) = {NoneMsg}

Stored(content, role) == [content |-> content, function_call |-> ABSENT, role |-> role]

\* C5: after A's initiate_chat(B, message="hi") with every reply handler of B
\* declining, A's history for B is the single entry assistant/hi, B's history
\* for A the single entry user/hi, and no send or receive follows the first.
C5_RoundTrip ==
    (call.op = "initiate_chat" /\ call.msg = StrMsg("hi") /\ AllDecline(call.peer)) =>
        /\ messages[call.agent][call.peer] = <<Stored("hi", "assistant")>>
        /\ depth <= 1
        /\ pending = NoCall =>
              /\ outcome = "returned"
              /\ messages[call.peer][call.agent] = <<Stored("hi", "user")>>

\* C6: every conversation started by initiate_chat comes to an end by
\* itself, with the call returning and both agents idle; none goes on until
\* the call stack is exhausted.
C6_ChatTerminates ==
    call.op \in {"initiate_chat", "initiate_chat_keep"} => outcome # "RecursionError"

\* C7: the consecutive automatic replies an agent has sent to a counterpart
\* since the counter was last reset never exceed max_consecutive_auto_reply.
C7_AutoReplyBudget ==
    \A a \in Agents : \A c \in DOMAIN auto_sent[a] :
        auto_sent[a][c] <= max_consecutive_auto_reply[a]

IsEmptyReply(r) == r = NoneMsg \/ (r.kind = "str" /\ r.content = "")

\* C8: when generate_reply produced an empty reply, receive sends nothing:
\* the call returns, the receiver's history ends with the received message
\* and no receive call is pending.
C8_EmptyReplyNotSent ==
    (last.op = "receive" /\ dispatch # NoDispatch /\ IsEmptyReply(dispatch.reply)) =>
        /\ pending = NoCall
        /\ outcome = "returned"
        /\ messages[last.agent][last.peer][Len(messages[last.agent][last.peer])]
              = OaiMessage(last.msg, "user")

\* -------------------------------------------------------------------- C11
SendOps == {"send", "initiate_chat", "initiate_chat_keep"}
\* The role send (assistant) or receive (user) appends with.
AppendRole(op) == IF op.op \in SendOps THEN "assistant" ELSE "user"
\* The entry the step stored for its message: the last of the sender's
\* history for a send, the first new one of the receiver's for a receive.
StoredEntry(op) ==
    IF op.op \in SendOps
    THEN messages'[op.agent][op.peer][Len(messages'[op.agent][op.peer])]
    ELSE messages'[op.agent][op.peer][Len(DictGet(messages[op.agent], op.peer, <<>>)) + 1]
StoresMessage(op) == op.op \in SendOps \cup {"receive"} /\ ~InvalidInput(op.msg)
OwnRole(m) == IF m.kind = "str" THEN ABSENT ELSE m.role
HasContent(m) == m.kind = "str" \/ m.content # ABSENT
HasFunctionCall(m) == m.kind = "dict" /\ m.function_call # ABSENT

\* C11 as stated: a message whose own role is function is stored with role
\* function, a message carrying only function_call with content None and role
\* assistant, every other message with assistant by send and user by receive.
C11_RoleAsClaimed ==
    StoresMessage(last') =>
        LET m == last'.msg
            e == StoredEntry(last')
            onlyCall == HasFunctionCall(m) /\ ~HasContent(m)
        IN  /\ (OwnRole(m) = "function" /\ ~onlyCall) => e.role = "function"
            /\ (onlyCall /\ OwnRole(m) # "function") => (e.role = "assistant" /\ e.content = NONE)
            /\ (OwnRole(m) # "function" /\ ~onlyCall) => e.role = AppendRole(last')
C11_RoleStep ==
    StoresMessage(last') =>
        LET m == last'.msg
            e == StoredEntry(last')
        IN  /\ e.role = IF HasFunctionCall(m) THEN "assistant"
                        ELSE IF OwnRole(m) = "function" THEN "function"
                        ELSE AppendRole(last')
            /\ e.content = IF HasContent(m) THEN m.content ELSE NONE
            /\ e.function_call = IF HasFunctionCall(m) THEN m.function_call ELSE ABSENT

Conversations(a) == DOMAIN messages[a]

\* C12: last_message with no counterpart given returns nothing when the
\* agent has no conversation, the last message of the only conversation when
\* there is exactly one counterpart, and fails with the ambiguity error (and
\* no other error) when there is more than one.
C12_LastMessageUnnamed ==
    (last.op = "last_message" /\ last.peer = NoSender) =>
        LET a == last.agent
            n == Cardinality(Conversations(a))
        IN  /\ n = 0 => result.how = "None"
            /\ n = 1 => /\ result.how = "message"
                        /\ \E c \in Conversations(a) :
                              /\ Len(messages[a][c]) > 0
                              /\ result.value = <<messages[a][c][Len(messages[a][c])]>>
            /\ n > 1 => result.how = "ValueError"

\* -------------------------------------------------------------------- C13
\* C13: asking for the last message, or the history, of a counterpart with
\* whom the agent never exchanged a message fails with the lookup error,
\* whatever ran before.
C13_UnknownCounterpartFails ==
    (last.op \in {"last_message", "chat_messages"} /\ last.peer # NoSender
        /\ last.peer \notin exchanged[last.agent]) => result.how = "KeyError"

\* -------------------------------------------------------------------- C14
\* Dict d' agrees with dict d on every key outside keys.
SameOutside(d, e, keys) ==
    /\ DOMAIN e \ keys = DOMAIN d \ keys
    /\ \A k \in DOMAIN d \ keys : e[k] = d[k]

\* What a step that is initiate_chat(b, clear_history, message=m) of a
\* must establish.
C14_PrepareStep ==
    last'.op \in {"initiate_chat", "initiate_chat_keep"} =>
        LET a == last'.agent
            b == last'.peer
            m == last'.msg
            clear == last'.op = "initiate_chat"
            mine == IF clear THEN <<>> ELSE DictGet(messages[a], b, <<>>)
        IN  /\ b \in DOMAIN counter'[a] /\ counter'[a][b] = 0
            /\ a \in DOMAIN counter'[b] /\ counter'[b][a] = 0
            /\ b \in DOMAIN reply_at_receive'[a] /\ reply_at_receive'[a][b]
            /\ a \in DOMAIN reply_at_receive'[b] /\ reply_at_receive'[b][a]
            /\ IF clear THEN a \in DOMAIN messages'[b] /\ messages'[b][a] = <<>>
                        ELSE messages'[b] = messages[b]
            /\ IF InvalidInput(m)
               THEN /\ outcome' = "ValueError"
                    /\ pending' = NoCall
                    /\ IF clear THEN messages'[a][b] = <<>> ELSE messages'[a] = messages[a]
               ELSE /\ messages'[a][b] = Append(mine, OaiMessage(m, "assistant"))
                    /\ pending' = [to |-> b, from |-> a, msg |-> m, request_reply |-> "None"]
            /\ \A c \in Agents \ {a, b} :
                  /\ messages'[c] = messages[c]
                  /\ counter'[c] = counter[c]
                  /\ reply_at_receive'[c] = reply_at_receive[c]
            /\ \A x \in {a, b} :
                  /\ SameOutside(messages[x], messages'[x], {a, b})
                  /\ SameOutside(counter[x], counter'[x], {a, b})
                  /\ SameOutside(reply_at_receive[x], reply_at_receive'[x], {a, b})

\* C14: initiate_chat(recipient, clear_history) sets both sides' auto-reply
\* counters for each other to zero and both sides' reply_at_receive for each
\* other to true, clears both sides' history of each other exactly when
\* clear_history is true, and only then sends the initial message; whatever
\* is keyed by a third agent is left as it was.
C14_InitiateChatFrame == [][C14_PrepareStep]_vars

\* C14 witness: initiate_chat with clear_history has just run between two
\* agents that had talked before: the recipient's history of the initiator
\* is empty again and the initiator's holds only the new message.
C14_Witness ==
    /\ last.op = "initiate_chat"
    /\ last.agent \in exchanged[last.peer]
    /\ messages[last.peer][last.agent] = <<>>
    /\ Len(messages[last.agent][last.peer]) = 1
    /\ pending # NoCall

\* -------------------------------------------------------------------- C15
\* Every message stored for handles of one participant is in one history.
C15_OneHistoryPerName ==
    \A n \in Names :
        Len(sb_log[n]) > 0 => \E k \in DOMAIN sb_messages : sb_messages[k] = sb_log[n]

\* generate_reply reads, for a sender, the history receive appended to.
C15_ReadsWhatWasAppended ==
    sb.op = "generate_reply" => sb.read = sb_log[sb.name]

\* C15: history is keyed by the participant's name, not by the handle:
\* messages exchanged through two handles of the same participant land in
\* one and the same history, and the history generate_reply reads for a
\* sender is the one send and receive appended to for that sender.
C15_HistoryKeyedByName == C15_OneHistoryPerName /\ C15_ReadsWhatWasAppended

\* -------------------------------------------------------------------- C16
\* The content of the newest message the code-execution handler was given.
NewestContent == sb.read[Len(sb.read)].content
RunsCode(c) == sb.op = "generate_reply" /\ Len(sb.read) > 0 /\ NewestContent = Fenced(c)

\* C16: for a newest message with a python fenced block whose code runs
\* without raising, the code-execution handler is conclusive and returns an
\* execution response of status 0 whose output holds what the code printed;
\* for a message without fenced block it is inconclusive and generate_reply
\* goes on to the next entry.
C16_CodeExecutionReply ==
    /\ \A c \in Codes :
          (RunsCode(c) /\ Raises(c) = "nothing") =>
              /\ sb.outcome = "returned"
              /\ sb.final
              /\ sb.status = 0
              /\ sb.output = Printed(c)
    /\ (sb.op = "generate_reply" /\ Len(sb.read) > 0 /\ NewestContent = PlainText) =>
          (sb.outcome = "returned" /\ ~sb.final)

\* -------------------------------------------------------------------- C17
\* C17: get_sandbox and get_or_create_sandbox of a name whose sandbox is
\* absent from the pool, or was untouched for longer than the idle timeout,
\* give a freshly created sandbox without session variables: the stale
\* sandbox is not reused and the access does not fail for want of a sandbox.
C17_StaleSandboxRecreated ==
    (sb.op \in {"get_sandbox", "get_or_create_sandbox"} /\ (sb.absent \/ sb.stale)) =>
        /\ sb.outcome = "sandbox"
        /\ sb.fresh
        /\ sb.session_variables = {}

\* -------------------------------------------------------------------- C18
\* C18: code whose execution raises makes the sandbox return a nonzero exit
\* code with the formatted trace as output, never an exception, and the
\* code-execution handler then returns a conclusive response with that
\* status.
C18_ExecutionErrorsAreData ==
    /\ (sb.op = "exec_capture_output" /\ Raises(sb.code) # "nothing") =>
          /\ sb.outcome = "returned"
          /\ sb.status # 0
          /\ sb.output = "Traceback"
    /\ \A c \in Codes :
          (RunsCode(c) /\ Raises(c) # "nothing") =>
              /\ sb.outcome = "returned"
              /\ sb.final
              /\ sb.status # 0

\* C19 (as stated): when every model response asks for more context,
\* generate_retrieval_based_reply has called the model exactly
\* min(update_context_retry, chunks) times and returned the failure value.
C19_RetryBound ==
    (ra.op = "generate_retrieval_based_reply" /\ ra.response = UpdateContext) =>
        /\ ra.outcome = "returned"
        /\ ra.value = FailToAnswer
        /\ ra.llm_calls = Min(update_context_retry, chunks)

\* the entries of the last dispatch's chain that generate_reply calls
\* generate_llm_reply at, and the entries it does not pass over after k
LlmEntries ==
    {k \in 1..Len(dispatch.chain) : dispatch.chain[k].reply_func = "generate_llm_reply"}
Invoked == {dispatch.invoked[n] : n \in 1..Len(dispatch.invoked)}
After(k) ==
    {j \in (k + 1)..Len(dispatch.chain) : ~PassedOver(dispatch.chain[j], dispatch.exclude)}
BackendFailed ==
    /\ dispatch # NoDispatch
    /\ llm[dispatch.agent]
    /\ ~dispatch.reachable
    /\ LlmEntries \cap Invoked # {}

\* C20 (as stated): when the backend call fails during reply generation, the
\* handler returns inconclusive: the call does not end with the failure, and
\* the entry after generate_llm_reply is tried.
C20_BackendFailureDegrades ==
    BackendFailed =>
        /\ outcome # "BackendError"
        /\ ~dispatch.raised
        /\ \A k \in LlmEntries \cap Invoked :
               After(k) # {} =>
                  (CHOOSE j \in After(k) : \A i \in After(k) : j <= i) \in Invoked

\* -------------------------------------------------------------------- C21
\* Two calls of get_or_create_sandbox for one name that overlapped, both
\* returned a sandbox.
BothServed ==
    /\ \A t \in Threads : threads[t].pc = "done" /\ threads[t].outcome = "sandbox"
    /\ threads["t1"].name = threads["t2"].name
    /\ threads["t1"].overlapped /\ threads["t2"].overlapped

\* C21 (as stated): two concurrent requests for one counterpart name are
\* served by a single sandbox: both calls return the same sandbox, the one
\* the pool holds for the name, and no second sandbox was created for it.
C21_OneSandboxPerName ==
    BothServed =>
        /\ threads["t1"].got = threads["t2"].got
        /\ threads["t1"].name \in DOMAIN sandboxes
        /\ sandboxes[threads["t1"].name].id = threads["t1"].got

\* -------------------------------------------------------------------- C22
\* No entry of the chain the dispatch walked is conclusive: each is passed
\* over or returns (False, None).
NoneConclusive(d) ==
    /\ ~d.raised
    /\ \A k \in 1..Len(d.chain) :
          PassedOver(d.chain[k], d.exclude) \/ ~Conclusive(d.agent, d.chain[k])

\* the messages agent a holds for counterpart c
History(msgs, a, c) == DictGet(msgs[a], c, <<>>)

\* What a generate_reply step without conclusive entry must establish.
C22_Step ==
    (last'.op = "generate_reply" /\ dispatch' # NoDispatch /\ NoneConclusive(dispatch')) =>
        /\ dispatch'.reply = default_auto_reply[dispatch'.agent]
        /\ outcome' = "returned"
        /\ \A a \in Agents : \A c \in Agents \cup {NoSender} :
              History(messages', a, c) = History(messages, a, c)
        /\ counter' = counter
        /\ auto_sent' = auto_sent

Except(chain, k) == SubSeq(chain, 1, k - 1) \o SubSeq(chain, k + 1, Len(chain))

\* What a register_reply step must establish: the entries there before keep
\* their order, and the new entry is at index position (the front for the
\* default position 0); a position beyond the end, as with list.insert,
\* gives the last place.
C23_Step ==
    (last'.op = "register_reply") =>
        LET old == reply_func_list[last'.agent]
            new == reply_func_list'[last'.agent]
            p == last'.position
            k == IF p <= Len(old) THEN p + 1 ELSE Len(old) + 1
        IN  /\ Len(new) = Len(old) + 1
            /\ new[k].reply_func = last'.reply_func
            /\ new[k].config = new[k].init_config
            /\ Except(new, k) = old
            /\ \A a \in Agents \ {last'.agent} : reply_func_list'[a] = reply_func_list[a]

\* generate_reply calls the entries in the order of the chain.
InChainOrder ==
    \A i, j \in 1..Len(dispatch.invoked) : i < j => dispatch.invoked[i] < dispatch.invoked[j]

AddressedOps ==
    {"send", "receive", "clear_history", "reset_consecutive_auto_reply_counter",
     "stop_reply_at_receive", "update_max_consecutive_auto_reply"}

\* the entry of key d is the same in the two dicts
SameEntry(old, new, d) ==
    /\ d \in DOMAIN new <=> d \in DOMAIN old
    /\ d \in DOMAIN old => new[d] = old[d]

\* the limit max_consecutive_auto_reply(d) would return
Limit(maxes, dicts, a, d) == DictGet(dicts[a], d, maxes[a])

\* The step left what agent x keeps about counterpart d as it was.
KeepsCounterpart(x, d) ==
    /\ SameEntry(messages[x], messages'[x], d)
    /\ SameEntry(counter[x], counter'[x], d)
    /\ SameEntry(reply_at_receive[x], reply_at_receive'[x], d)
    /\ SameEntry(max_consecutive_auto_reply_dict[x], max_consecutive_auto_reply_dict'[x], d)
    /\ Limit(max_consecutive_auto_reply', max_consecutive_auto_reply_dict', x, d)
          = Limit(max_consecutive_auto_reply, max_consecutive_auto_reply_dict, x, d)

\* the operation a step belongs to: the driver's call while a conversation
\* runs, else the operation itself
Addressed == IF call'.op # "none" THEN call' ELSE last'

C24_Step ==
    (Addressed.op \in AddressedOps /\ Addressed.peer \in Agents) =>
        \A x, d \in Agents :
            ({x, d} # {Addressed.agent, Addressed.peer}) => KeepsCounterpart(x, d)

OwnHistoryOps == {"reset", "clear_history", "send", "receive"}

C25_Step ==
    (last'.op \in OwnHistoryOps) =>
        \A x \in Agents \ {last'.agent} : messages'[x] = messages[x]

\* C25: reset() or clear_history() on one agent, and every append to its
\* history afterwards, leaves the histories the other agents hold unchanged.
C25_HistoriesNotShared == [][C25_Step]_vars

\* C25 witness: A, whose history had been emptied, has appended a message
\* for B again, and B still holds what it received before.
C25_Witness ==
    /\ last.op = "send"
    /\ last.agent = "A"
    /\ last.peer = "B"
    /\ ~Idle
    /\ Len(messages["A"]["B"]) = 1
    /\ "A" \in DOMAIN messages["B"]
    /\ Len(messages["B"]["A"]) >= 1

\* -------------------------------------------------------------------- C26
\* the positions of the n most recent messages
Window(msgs, n) == {i \in 1..Len(msgs) : i > Len(msgs) - n}

\* the positions in the window of the messages that carry code
Qualifying(msgs, n) == {i \in Window(msgs, n) : ~NoCode(msgs[i])}

\* C26: the code handler looks at the N most recent messages, most recent
\* first, runs the code of the first one that qualifies and only that one,
\* is inconclusive when none does, and leaves the configured N as it was
\* (the runtime creating the sandboxes it is asked for).
C26_CodeLookback ==
    (sb.op = "generate_reply" /\ sb.raised_in = ABSENT) =>
        LET q == Qualifying(sb.read, sb.last_n_messages)
        IN  /\ q = {} => ~sb.final /\ sb.outcome = "returned" /\ sb.index = 0
            /\ q # {} =>
                  /\ sb.index \in q
                  /\ \A i \in q : i <= sb.index
                  /\ sb.final
                  /\ sb.outcome = "returned"
            /\ LastNMessages(code_execution_config) = sb.last_n_messages

\* -------------------------------------------------------------------- C27
\* the sandboxes of the pool that were last used longer ago than the timeout
Idle_Sandboxes ==
    {n \in DOMAIN sandboxes : n \in DOMAIN lasted_updated /\ now - lasted_updated[n] > SandboxTimeout}

\* C27: right after get_sandbox or get_or_create_sandbox, no sandbox left in
\* the pool has been idle for longer than the timeout.
C27_Step ==
    (sb'.op \in {"get_sandbox", "get_or_create_sandbox"} /\ now' = now) => Idle_Sandboxes' = {}

C27_IdleEviction == [][C27_Step]_vars

\* -------------------------------------------------------------------- C30
\* C30: the names with a last-used time are the names with a sandbox in the
\* pool, whatever calls were made and whether or not a creation failed, and
\* eviction never fails for a name that has a time but no sandbox.
C30_PoolConsistency ==
    /\ DOMAIN lasted_updated = DOMAIN sandboxes
    /\ sb.raised_in # "check_sandbox_timeout"

\* -------------------------------------------------------------------- C28
\* The handler was given a question and the store holds chunks for it.
Asked ==
    LET key == IF ra.given THEN ra.sender ELSE GetAgentName(ra.sender)
    IN  /\ ra.op = "generate_retrieval_based_reply"
        /\ Len(DictGet(ra_messages, key, <<>>)) > 0
        /\ chunks >= 1

\* C28: a model response without the marker ends the retries and is what the
\* handler returns, after a single call when it is the first response; the
\* failure response is returned only when every response carried the marker,
\* and a response carrying the marker is never returned.
C28_StopsAtFirstAnswer ==
    Asked =>
        /\ ra.outcome = "returned"
        /\ ra.response # UpdateContext => ra.value = ra.response /\ ra.llm_calls = 1
        /\ ra.value = FailToAnswer => ra.response = UpdateContext
        /\ ra.value # UpdateContext

\* -------------------------------------------------------------------- C29
\* The two histories of the conversation the driver started.
Ours == DictGet(messages[call.agent], call.peer, <<>>)
Theirs == DictGet(messages[call.peer], call.agent, <<>>)

\* initiate_chat with clear_history true has returned, or is still running
ChatReturned == call.op = "initiate_chat" /\ outcome = "returned"
ChatRunning == call.op = "initiate_chat" /\ outcome = "running"

\* the initiator sent the messages at the odd positions
RoleOfSender(i, initiator) ==
    IF (i % 2 = 1) = initiator THEN "assistant" ELSE "user"

SameContents ==
    /\ Len(Ours) = Len(Theirs)
    /\ \A i \in 1..Len(Ours) :
          /\ Ours[i].content = Theirs[i].content
          /\ Ours[i].function_call = Theirs[i].function_call

SenderAhead ==
    ChatRunning =>
        Len(DictGet(messages[pending.from], pending.to, <<>>))
            = Len(DictGet(messages[pending.to], pending.from, <<>>)) + 1

\* C29 as stated: once initiate_chat with clear_history true has returned
\* without error, the two histories have the same length and contents, every
\* message with role assistant on the side that sent it and user on the side
\* that received it; while it runs the sender's side is one message ahead.
C29_MirroredAsStated ==
    /\ ChatReturned =>
          /\ SameContents
          /\ \A i \in 1..Len(Ours) :
                /\ Ours[i].role = RoleOfSender(i, TRUE)
                /\ Theirs[i].role = RoleOfSender(i, FALSE)
    /\ SenderAhead

\* C29 amended: as stated, for the messages that carry no function_call and
\* whose own role is not function; a message carrying function_call has role
\* assistant on both sides and one whose own role is function has role
\* function on both sides.
C29_Mirrored ==
    /\ ChatReturned =>
          /\ SameContents
          /\ \A i \in 1..Len(Ours) :
                IF Ours[i].function_call # ABSENT
                THEN Ours[i].role = "assistant" /\ Theirs[i].role = "assistant"
                ELSE IF "function" \in {Ours[i].role, Theirs[i].role}
                THEN Ours[i].role = "function" /\ Theirs[i].role = "function"
                ELSE /\ Ours[i].role = RoleOfSender(i, TRUE)
                     /\ Theirs[i].role = RoleOfSender(i, FALSE)
    /\ SenderAhead

\* C29 witness: a conversation started by initiate_chat has returned after a
\* message carrying function_call and an answer to it, which the initiator
\* stored as user.
C29_Witness ==
    /\ ChatReturned
    /\ Len(Theirs) >= 2
    /\ \E i, j \in 1..Len(Theirs) :
          /\ Ours[i].role = "user"
          /\ Theirs[j].function_call # ABSENT

\* -------------------------------------------------------------------- C31
\* C31: after a call of exec_capture_output, whether the code succeeded or
\* raised, standard output and standard error of the sandbox's process are
\* the streams they were before the call.
C31_StreamsRestored ==
    (sb.op = "exec_capture_output" /\ sb.name \in DOMAIN sandboxes) =>
        /\ sandboxes[sb.name].stdout = OriginalStreams.stdout
        /\ sandboxes[sb.name].stderr = OriginalStreams.stderr

====
